---- MODULE Spec2Model ----
(***************************************************************************)
(* Phone one-time-code login of nicolae-ai-hub: the issuer and the         *)
(* verifier of src/lib/phone-auth.ts over the PhoneLoginCode table.        *)
(*                                                                         *)
(* Time is in milliseconds, as Date.getTime() gives it.  A stored hash is  *)
(* modelled by the pair it is computed from (HMAC-SHA256 under one secret  *)
(* is taken to be injective on its message).  The requestedByIp column is  *)
(* written once and never read, and is left out.                           *)
(***************************************************************************)
EXTENDS Integers, Sequences, FiniteSets, TLC

\* ------------------------------------------------------------------------
\* Program constants (src/lib/phone-auth.ts:5-9)
OTP_CODE_LENGTH == 6
MAX_VERIFY_ATTEMPTS == 5
MAX_REQUESTS_PER_WINDOW == 5
REQUEST_WINDOW_MINUTES == 15
RESEND_COOLDOWN_SECONDS == 60

\* ------------------------------------------------------------------------
\* Bounds of the model
MaxTicks == 5           \* clock steps, sequential specification
MaxIssued == 2          \* rows ever created, sequential specification
RateMaxTicks == 4       \* clock steps, rate-limit specification
RateMaxIssued == 6      \* rows ever created, rate-limit specification
ConcMaxTicks == 1       \* clock steps, concurrent-verifier specification
MaxLogged == 3            \* rows in each of the two logs
MinPhoneDigits == 6       \* shortest run of digits typed as a phone number
MaxPhoneDigits == 16      \* longest run of digits typed as a phone number
IssuerMaxTicks == 2     \* clock steps, concurrent-issuer specification
IssuerMaxIssued == 6    \* rows ever created, concurrent-issuer specification
ConcMaxIssued == 2      \* rows ever created, concurrent-verifier specification
LockoutMaxTicks == 1    \* clock steps, lockout specification
LockoutMaxIssued == 3   \* rows ever created, lockout specification
BindingMaxTicks == 4    \* clock steps, two-phone specification
BindingMaxIssued == 6   \* rows ever created, two-phone specification
TtlMaxTenths == 165     \* largest setting, in tenths of a minute, time-to-live specification
TtlMaxTicks == 1        \* clock steps, time-to-live specification
TtlMaxIssued == 2       \* rows ever created, time-to-live specification
RequestMaxTicks == 2    \* clock steps, request-code specification
RequestMaxIssued == 3   \* rows ever created, request-code specification
TenantMaxLogged == 1     \* rows in each of the two logs, tenant specification
PutMaxLogged == 3        \* PROFILE_UPDATED rows, concurrent-PUT specification

\* Clock steps.  Half the resend cooldown lets a call fall inside the
\* cooldown, exactly on its end and exactly on a row's expiry; the rate-limit
\* specification steps by the whole cooldown.
HalfCooldownMs == (RESEND_COOLDOWN_SECONDS * 1000) \div 2
CooldownMs == RESEND_COOLDOWN_SECONDS * 1000

PhoneNumbers == {"+40711111111", "+40722222222"}

\* The phone whose codes are verified; the other one only requests codes.
VerifiedPhones == {"+40711111111"}


\* Values randomInt(0, 10^6) may return; 42 needs the left padding.
RandomInts == {42, 111111}

\* The issuer's calls of Spec: the phone and what randomInt returns.
IssueInputs == (VerifiedPhones \X RandomInts) \cup ((PhoneNumbers \ VerifiedPhones) \X {42})

\* PHONE_OTP_TTL_MINUTES as Number() sees it: unset, not a finite number, or
\* a finite number given in tenths of a minute (15 is 1.5).
TtlUnset == [kind |-> "unset", tenths |-> 0]
TtlTwoAndAHalf == [kind |-> "num", tenths |-> 25]

\* Every setting of the time-to-live specification: unset, the three values
\* that are not finite, and the finite ones from -TtlMaxTenths to
\* TtlMaxTenths tenths ("" and blank strings are the number 0).
TtlSettings ==
    { [kind |-> k, tenths |-> 0] : k \in {"unset", "NaN", "Infinity", "-Infinity"} }
        \cup { [kind |-> "num", tenths |-> n] : n \in (0 - TtlMaxTenths)..TtlMaxTenths }

Verifiers == {"v1", "v2"}
Issuers == {"i1", "i2"}

\* ------------------------------------------------------------------------
\* Strings are sequences of one-character strings.
DigitChars == <<"0", "1", "2", "3", "4", "5", "6", "7", "8", "9">>
Digits == {DigitChars[i] : i \in 1..10}
Whitespace == {" ", "\t"}

Max(a, b) == IF a >= b THEN a ELSE b
Min(a, b) == IF a <= b THEN a ELSE b

RECURSIVE NumberToString(_)
NumberToString(n) ==
    IF n < 10 THEN <<DigitChars[n + 1]>>
    ELSE NumberToString(n \div 10) \o <<DigitChars[(n % 10) + 1]>>

RECURSIVE padStart(_, _, _)
padStart(s, len, fill) == IF Len(s) >= len THEN s ELSE padStart(<<fill>> \o s, len, fill)

\* The codes a user may type: the two issued codes, one of them also with
\* blanks around and inside, the unpadded 42, a code with a letter, and a
\* code of seven digits.
CodeInputs ==
    { <<"0", "0", "0", "0", "4", "2">>,
      <<"1", "1", "1", "1", "1", "1">>,
      <<" ", "1", "1", "1", "\t", "1", "1", "1">>,
      <<"4", "2">>,
      <<"1", "1", "1", "1", "1", "a">>,
      <<"1", "1", "1", "1", "1", "1", "1">> }

\* The codes typed in the concurrent-verifier specification: the issued
\* code, another well-formed code and a malformed one.
\* The phone numbers a user may type: a run of digits 1234567890123... behind
\* nothing, a plus, two zeros or one zero, written plain, with blanks around
\* and a dash inside, with its first three digits in parentheses, or with a
\* dash between all its digits; and null, the empty text, a blank text and a
\* text with a letter.
DigitRun(n) == [i \in 1..n |-> DigitChars[(i % 10) + 1]]

PhonePrefixes == {<<>>, <<"+">>, <<"0", "0">>, <<"0">>}

RECURSIVE Dashed(_)
Dashed(s) == IF Len(s) <= 1 THEN s ELSE <<Head(s), "-">> \o Dashed(Tail(s))

PhoneStyles(prefix, run) ==
    { prefix \o run,
      <<" ">> \o prefix \o <<" ">> \o SubSeq(run, 1, 3) \o <<"-">>
          \o SubSeq(run, 4, Len(run)) \o <<"\t">>,
      prefix \o <<"(">> \o SubSeq(run, 1, 3) \o <<")">> \o <<".">> \o SubSeq(run, 4, Len(run)),
      prefix \o Dashed(run) }

PhoneInputs ==
    {[kind |-> "null", text |-> <<>>]}
    \cup {[kind |-> "str", text |-> s] :
            s \in { <<>>, <<" ", "\t", " ">>, <<"+", "4", "0", "7", "a", "1", "1", "1", "1", "1">> }
                  \cup UNION { PhoneStyles(prefix, DigitRun(n)) :
                                 prefix \in PhonePrefixes, n \in MinPhoneDigits..MaxPhoneDigits } }

ConcCodeInputs ==
    { <<"0", "0", "0", "0", "4", "2">>,
      <<" ", "1", "1", "1", "\t", "1", "1", "1">>,
      <<"4", "2">> }

\* ------------------------------------------------------------------------
\* Pure functions of src/lib/phone-auth.ts

\* as getOtpTtlMinutes, with Math.round in place of Math.floor
getOtpTtlMinutesRounding(env) ==
    LET parsed == IF env.kind = "unset" THEN [kind |-> "num", tenths |-> 50] ELSE env
    IN  IF parsed.kind # "num" THEN 5
        ELSE Max(1, Min(15, (parsed.tenths + 5) \div 10))

\* Number(env ?? 5), then 5 unless finite, else floored and clamped to 1..15
getOtpTtlMinutes(env) ==
    LET parsed == IF env.kind = "unset" THEN [kind |-> "num", tenths |-> 50] ELSE env
    IN  IF parsed.kind # "num" THEN 5
        ELSE Max(1, Min(15, parsed.tenths \div 10))

\* as hashOtpCode, with the code alone under the HMAC
hashOtpCodeOfCodeAlone(phoneNumber, code) == <<code>>

\* the HMAC of `${phoneNumber}:${code}`, told apart by what went into it
hashOtpCode(phoneNumber, code) == <<phoneNumber, code>>

secureEqualHex(left, right) == left = right

\* input.replace(/\s+/g, '')
StripWhitespace(input) == SelectSeq(input, LAMBDA ch : ch \notin Whitespace)

\* as MatchesOtpPattern, with the pattern not anchored at its end: /^\d{6}/
MatchesOtpPatternOpenEnded(compact) ==
    /\ Len(compact) >= OTP_CODE_LENGTH
    /\ \A i \in 1..OTP_CODE_LENGTH : compact[i] \in Digits

\* /^\d{6}$/.test(compact)
MatchesOtpPattern(compact) ==
    /\ Len(compact) = OTP_CODE_LENGTH
    /\ \A i \in 1..Len(compact) : compact[i] \in Digits

\* normalizeOtpCode: the compact code, or the validation error
normalizeOtpCode(input) ==
    LET compact == StripWhitespace(input)
    IN  IF ~MatchesOtpPattern(compact)
        THEN [ok |-> FALSE, code |-> <<>>]
        ELSE [ok |-> TRUE, code |-> compact]

\* String(randomInt(0, 10 ** OTP_CODE_LENGTH)).padStart(OTP_CODE_LENGTH, '0')
MintCode(n) == padStart(NumberToString(n), OTP_CODE_LENGTH, "0")

\* ------------------------------------------------------------------------
\* Pure functions of the phone-number half of src/lib/phone-auth.ts.  A value
\* is [kind, text]: kind "null" for null, undefined and the null returned,
\* "str" for a string, "error" for HttpError(400) thrown.

Slice(s, from) == SubSeq(s, from + 1, Len(s))

StartsWith(s, prefix) ==
    /\ Len(s) >= Len(prefix)
    /\ SubSeq(s, 1, Len(prefix)) = prefix

RECURSIVE TrimStart(_)
TrimStart(s) == IF s # <<>> /\ Head(s) \in Whitespace THEN TrimStart(Tail(s)) ELSE s

RECURSIVE TrimEnd(_)
TrimEnd(s) ==
    IF s # <<>> /\ s[Len(s)] \in Whitespace THEN TrimEnd(SubSeq(s, 1, Len(s) - 1)) ELSE s

NullValue == [kind |-> "null", text |-> <<>>]
ErrorValue == [kind |-> "error", text |-> <<>>]
StrValue(s) == [kind |-> "str", text |-> s]

\* sanitizeOptionalText of @/lib/sanitize: nothing for null, undefined and
\* blank text, otherwise the text trimmed and cut to maxLength characters
sanitizeOptionalText(input, maxLength) ==
    IF input.kind # "str" THEN NullValue
    ELSE LET trimmed == TrimEnd(TrimStart(input.text))
             cut == SubSeq(trimmed, 1, Min(Len(trimmed), maxLength))
         IN  IF cut = <<>> THEN NullValue ELSE StrValue(cut)

PhoneSeparators == {"(", ")", "-", "."} \cup Whitespace

\* /^[+0-9()\-.\s]{7,24}$/
MatchesPhoneAllowedPattern(s) ==
    /\ Len(s) >= 7 /\ Len(s) <= 24
    /\ \A i \in 1..Len(s) : s[i] \in {"+"} \cup Digits \cup PhoneSeparators

\* /^\+\d{8,15}$/
MatchesPhoneE164Pattern(s) ==
    /\ Len(s) >= 9 /\ Len(s) <= 16
    /\ s[1] = "+"
    /\ \A i \in 2..Len(s) : s[i] \in Digits

\* as ReplaceLeadingZeros, with the two zeros kept behind the plus
ReplaceLeadingZerosKeepingThem(s) == IF StartsWith(s, <<"0", "0">>) THEN <<"+">> \o s ELSE s

\* if (normalized.startsWith('00')) normalized = `+${normalized.slice(2)}`
ReplaceLeadingZeros(s) == IF StartsWith(s, <<"0", "0">>) THEN <<"+">> \o Slice(s, 2) ELSE s

normalizePhoneNumber(input) ==
    LET cleaned == sanitizeOptionalText(input, 32)
    IN  IF cleaned.kind = "null" THEN NullValue
        ELSE IF ~MatchesPhoneAllowedPattern(cleaned.text) THEN ErrorValue
        ELSE LET stripped == SelectSeq(cleaned.text, LAMBDA ch : ch \notin PhoneSeparators)
                 replaced == ReplaceLeadingZeros(stripped)
                 normalized == IF ~StartsWith(replaced, <<"+">>)
                               THEN <<"+">> \o replaced
                               ELSE replaced
             IN  IF ~MatchesPhoneE164Pattern(normalized) THEN ErrorValue
                 ELSE StrValue(normalized)

\* ------------------------------------------------------------------------
\* State

VARIABLES
    now,        \* the clock, ms
    otpTtlEnv,  \* process.env.PHONE_OTP_TTL_MINUTES
    codes,      \* the PhoneLoginCode table: a set of rows
    nextId,     \* the id the next created row gets
    res,        \* the last call and its answer, until the clock moves
    issuedLog,  \* history: per phone, the times of its successful issuances
    streak,     \* history: per phone, wrong codes in a row against one row
    vst,        \* the concurrent verifier calls in flight
    phoneCall,  \* normalizePhoneNumber: two inputs and what it made of them
    profileAccessLog,   \* the ProfileAccessLog table, oldest row first
    auditLog,           \* what logAudit has written, oldest row first
    profileRes,         \* the last profile request and its response
    ist,                \* the concurrent issuer calls in flight
    requestRes,         \* the last request-code request and its response
    smsOutbox,          \* what dispatchPhoneCode has sent, oldest first
    profileTable,       \* the PsychosocialProfile table: a set of rows
    pst,                \* the concurrent PUT requests in flight
    aiRes               \* the last request to an AI route and its response

otpVars == <<now, otpTtlEnv, codes, nextId, res, issuedLog, streak, vst, ist>>

profileVars == <<profileAccessLog, auditLog, profileRes, profileTable, pst>>

frontVars == <<requestRes, smsOutbox>>

vars ==
    <<now, otpTtlEnv, codes, nextId, res, issuedLog, streak, vst, phoneCall,
      profileAccessLog, auditLog, profileRes, ist, requestRes, smsOutbox,
      profileTable, pst, aiRes>>

\* what a call of issuePhoneLoginCode leaves alone, whoever makes it
backstage ==
    <<phoneCall, profileAccessLog, auditLog, profileRes, ist, profileTable, pst, aiRes>>

\* what a call of issuePhoneLoginCode or verifyPhoneLoginCode made on its own
\* leaves alone
offstage == <<backstage, frontVars>>

NoRes ==
    [op |-> "none", phone |-> "", code |-> <<>>, outcome |-> "none", rec |-> 0, wait |-> 0,
     expiresAt |-> 0]

NoStreak == [p \in PhoneNumbers |-> [rec |-> 0, n |-> 0]]

IdleVerifier ==
    [pc |-> "idle", phone |-> "", code |-> <<>>, at |-> 0, rec |-> 0,
     attempts |-> 0, valid |-> FALSE, outcome |-> "none"]

NoPhoneCall ==
    [pc |-> "none", a |-> NullValue, b |-> NullValue, ra |-> NullValue, rb |-> NullValue,
     raa |-> NullValue]

IdleIssuer ==
    [pc |-> "idle", phone |-> "", at |-> 0, outcome |-> "none", rec |-> 0, wait |-> 0]

OtpInit(env) ==
    /\ now = 0
    /\ otpTtlEnv = env
    /\ codes = {}
    /\ nextId = 1
    /\ res = NoRes
    /\ issuedLog = [p \in PhoneNumbers |-> <<>>]
    /\ streak = NoStreak
    /\ vst = [v \in Verifiers |-> IdleVerifier]
    /\ ist = [i \in Issuers |-> IdleIssuer]

NoProfileRes ==
    [op |-> "none", status |-> 0, actor |-> "", workspace |-> "", profile |-> "", logs |-> <<>>]

Users == {"ana", "mihai", "dan"}
Profiles == {"pr1", "pr2"}
RequestedWorkspace == "w1"
WorkspaceOf == [pid \in Profiles |-> IF pid = "pr1" THEN "w1" ELSE "w2"]
RoleIn == [u \in Users |-> IF u = "ana" THEN "OWNER" ELSE IF u = "mihai" THEN "MEMBER" ELSE "NONE"]

\* The two workspaces; the user with no role in the first owns the second.
Workspaces == {"w1", "w2"}
RoleInWorkspace(u, w) ==
    IF w = RequestedWorkspace THEN RoleIn[u]
    ELSE IF u = "dan" THEN "OWNER" ELSE "NONE"

\* what is posted to PUT: a body the schema accepts, one it refuses, and one
\* whose assessmentDate is no date
PutBodies == {"valid", "refusedBySchema", "invalidDate"}

Putters == {"put1", "put2"}

IdlePut == [pc |-> "idle", actor |-> "", profile |-> "", body |-> "none", status |-> 0]

\* version INTEGER NOT NULL DEFAULT 1
ProfileRow(pid) == [id |-> pid, workspaceId |-> WorkspaceOf[pid], version |-> 1]

ProfileInit ==
    /\ profileAccessLog = <<>>
    /\ auditLog = <<>>
    /\ profileRes = NoProfileRes
    /\ profileTable = {ProfileRow(pid) : pid \in Profiles}
    /\ pst = [c \in Putters |-> IdlePut]

NoRequestRes ==
    [input |-> <<>>, status |-> 0, body |-> "none", phone |-> "", expiresAt |-> 0,
     debugCode |-> <<>>]

FrontInit ==
    /\ requestRes = NoRequestRes
    /\ smsOutbox = <<>>

\* generateText was not called
NotGenerated == [kind |-> "none", model |-> "", text |-> ""]

NoAiRes ==
    [route |-> "none", status |-> 0, provider |-> "", horizonDays |-> 0,
     generated |-> NotGenerated, body |-> "none", model |-> "null", fallbackRulesUsed |-> FALSE]

AiInit == aiRes = NoAiRes

InitWith(env) ==
    /\ OtpInit(env)
    /\ phoneCall = NoPhoneCall
    /\ ProfileInit
    /\ FrontInit
    /\ AiInit

\* ------------------------------------------------------------------------
\* Queries and writes on the table

\* as Purgeable, with expiresAt: { lte: now }
PurgeableFromExpiryOn(r, t) ==
    \/ r.expiresAt <= t
    \/ r.consumedAt # {}
    \/ r.attempts >= MAX_VERIFY_ATTEMPTS

\* deleteMany where expiresAt < now OR consumedAt not null OR attempts >= max
Purgeable(r, t) ==
    \/ r.expiresAt < t
    \/ r.consumedAt # {}
    \/ r.attempts >= MAX_VERIFY_ATTEMPTS

PurgeCodes(store, t) == {r \in store : ~Purgeable(r, t)}

\* as Newest, with orderBy createdAt asc
NewestOrderedAscending(rows) == {r \in rows : \A o \in rows : o.createdAt >= r.createdAt}

\* orderBy createdAt desc, findFirst: any row of the latest createdAt
Newest(rows) == {r \in rows : \A o \in rows : o.createdAt <= r.createdAt}

\* count where phoneNumber = p and createdAt >= windowStart
RecentCount(store, p, t) ==
    LET windowStart == t - REQUEST_WINDOW_MINUTES * 60 * 1000
    IN  Cardinality({r \in store : r.phoneNumber = p /\ r.createdAt >= windowStart})

RateLimited(store, p, t) == RecentCount(store, p, t) >= MAX_REQUESTS_PER_WINDOW

LatestFor(store, p) == Newest({r \in store : r.phoneNumber = p})

secondsSinceLast(t, latest) == (t - latest.createdAt) \div 1000

InCooldown(t, latest) == secondsSinceLast(t, latest) < RESEND_COOLDOWN_SECONDS

\* as NewCode, with the code itself in the codeHash column
NewCodeStoringPlaintext(id, p, code, t, env) ==
    [id |-> id, phoneNumber |-> p, codeHash |-> code,
     expiresAt |-> t + getOtpTtlMinutes(env) * 60 * 1000,
     attempts |-> 0, consumedAt |-> {}, createdAt |-> t]

\* create: attempts, consumedAt and createdAt are the column defaults
NewCode(id, p, code, t, env) ==
    [id |-> id, phoneNumber |-> p, codeHash |-> hashOtpCode(p, code),
     expiresAt |-> t + getOtpTtlMinutes(env) * 60 * 1000,
     attempts |-> 0, consumedAt |-> {}, createdAt |-> t]

\* as IsActive, with expiresAt: { gte: now }
IsActiveUntilExpiryIncluded(r, p, t) ==
    /\ r.phoneNumber = p
    /\ r.consumedAt = {}
    /\ r.expiresAt >= t

\* findFirst where phoneNumber = p, consumedAt null, expiresAt > now
IsActive(r, p, t) ==
    /\ r.phoneNumber = p
    /\ r.consumedAt = {}
    /\ r.expiresAt > t

ActiveCode(store, p, t) == Newest({r \in store : IsActive(r, p, t)})

\* as AttemptsExhausted, one attempt too late
AttemptsExhaustedOffByOne(attempts) == attempts > MAX_VERIFY_ATTEMPTS

\* if (activeCode.attempts >= MAX_VERIFY_ATTEMPTS) return false
AttemptsExhausted(attempts) == attempts >= MAX_VERIFY_ATTEMPTS

\* as UpdateAttempt, with the increment left out of the update on a match
UpdateAttemptCountingMissesOnly(store, id, valid, t) ==
    { IF r.id = id
      THEN [r EXCEPT !.attempts = IF valid THEN @ ELSE @ + 1,
                     !.consumedAt = IF valid THEN {t} ELSE @]
      ELSE r : r \in store }

\* as UpdateAttempt, with the counter set back to 0 on a match
UpdateAttemptResettingOnMatch(store, id, valid, t) ==
    { IF r.id = id
      THEN [r EXCEPT !.attempts = IF valid THEN 0 ELSE @ + 1,
                     !.consumedAt = IF valid THEN {t} ELSE @]
      ELSE r : r \in store }

\* update where id: attempts incremented in the database, consumedAt on a match
UpdateAttempt(store, id, valid, t) ==
    { IF r.id = id
      THEN [r EXCEPT !.attempts = @ + 1,
                     !.consumedAt = IF valid THEN {t} ELSE @]
      ELSE r : r \in store }

\* ------------------------------------------------------------------------
\* issuePhoneLoginCode, one call as one step

\* what the call gives its caller: { code, expiresAt }, or the error thrown
IssueRes(p, outcome, id, wait, code, expiresAt) ==
    [op |-> "issue", phone |-> p, code |-> code, outcome |-> outcome, rec |-> id,
     wait |-> wait, expiresAt |-> expiresAt]

IssueRateLimitedCall(p) ==
    LET kept == PurgeCodes(codes, now) IN
    /\ RateLimited(kept, p, now)
    /\ codes' = kept
    /\ res' = IssueRes(p, "rate", 0, 0, <<>>, 0)
    /\ streak' = NoStreak
    /\ UNCHANGED backstage /\ UNCHANGED <<now, otpTtlEnv, nextId, issuedLog, vst>>

IssueRateLimited(p) == IssueRateLimitedCall(p) /\ UNCHANGED frontVars

IssueCooldownCall(p) ==
    LET kept == PurgeCodes(codes, now) IN
    /\ ~RateLimited(kept, p, now)
    /\ \E latest \in LatestFor(kept, p) :
          /\ InCooldown(now, latest)
          /\ res' = IssueRes(p, "cooldown", 0,
                             RESEND_COOLDOWN_SECONDS - secondsSinceLast(now, latest),
                             <<>>, 0)
    /\ codes' = kept
    /\ streak' = NoStreak
    /\ UNCHANGED backstage /\ UNCHANGED <<now, otpTtlEnv, nextId, issuedLog, vst>>

IssueCooldown(p) == IssueCooldownCall(p) /\ UNCHANGED frontVars

IssueCreatedCall(p, n, maxIssued) ==
    LET kept == PurgeCodes(codes, now) IN
    /\ nextId <= maxIssued
    /\ ~RateLimited(kept, p, now)
    /\ \A latest \in LatestFor(kept, p) : ~InCooldown(now, latest)
    /\ codes' = kept \cup {NewCode(nextId, p, MintCode(n), now, otpTtlEnv)}
    /\ nextId' = nextId + 1
    /\ res' = IssueRes(p, "ok", nextId, 0, MintCode(n),
                       NewCode(nextId, p, MintCode(n), now, otpTtlEnv).expiresAt)
    /\ issuedLog' = [issuedLog EXCEPT ![p] = Append(@, now)]
    /\ streak' = NoStreak
    /\ UNCHANGED backstage /\ UNCHANGED <<now, otpTtlEnv, vst>>

IssueCreated(p, n, maxIssued) == IssueCreatedCall(p, n, maxIssued) /\ UNCHANGED frontVars

\* ------------------------------------------------------------------------
\* verifyPhoneLoginCode, one call as one step

VerifyRes(p, code, outcome, id) ==
    [op |-> "verify", phone |-> p, code |-> code, outcome |-> outcome, rec |-> id,
     wait |-> 0, expiresAt |-> 0]

\* one more wrong code against row id
Missed(s, id) ==
    IF s.rec = id
    THEN [s EXCEPT !.n = Min(@ + 1, MAX_VERIFY_ATTEMPTS)]
    ELSE [rec |-> id, n |-> 1]

VerifyMalformed(p, input) ==
    /\ ~normalizeOtpCode(input).ok
    /\ res' = VerifyRes(p, <<>>, "400", 0)
    /\ UNCHANGED offstage /\ UNCHANGED <<now, otpTtlEnv, codes, nextId, issuedLog, streak, vst>>

VerifyNoActive(p, input) ==
    /\ normalizeOtpCode(input).ok
    /\ ActiveCode(codes, p, now) = {}
    /\ res' = VerifyRes(p, normalizeOtpCode(input).code, "false", 0)
    /\ UNCHANGED offstage /\ UNCHANGED <<now, otpTtlEnv, codes, nextId, issuedLog, streak, vst>>

\* as VerifyExhausted, with the attempt counted before the counter is checked
VerifyExhaustedCounting(p, input) ==
    /\ normalizeOtpCode(input).ok
    /\ \E activeCode \in ActiveCode(codes, p, now) :
          /\ AttemptsExhausted(activeCode.attempts)
          /\ codes' = UpdateAttempt(codes, activeCode.id, FALSE, now)
          /\ res' = VerifyRes(p, normalizeOtpCode(input).code, "false", activeCode.id)
          /\ streak' = streak
    /\ UNCHANGED offstage /\ UNCHANGED <<now, otpTtlEnv, nextId, issuedLog, vst>>

VerifyExhausted(p, input) ==
    /\ normalizeOtpCode(input).ok
    /\ \E activeCode \in ActiveCode(codes, p, now) :
          /\ AttemptsExhausted(activeCode.attempts)
          /\ res' = VerifyRes(p, normalizeOtpCode(input).code, "false", activeCode.id)
          /\ streak' = IF secureEqualHex(activeCode.codeHash,
                                         hashOtpCode(p, normalizeOtpCode(input).code))
                       THEN streak
                       ELSE [streak EXCEPT ![p] = Missed(@, activeCode.id)]
    /\ UNCHANGED offstage /\ UNCHANGED <<now, otpTtlEnv, codes, nextId, issuedLog, vst>>

VerifyMismatch(p, input) ==
    /\ normalizeOtpCode(input).ok
    /\ \E activeCode \in ActiveCode(codes, p, now) :
          /\ ~AttemptsExhausted(activeCode.attempts)
          /\ ~secureEqualHex(activeCode.codeHash,
                             hashOtpCode(p, normalizeOtpCode(input).code))
          /\ codes' = UpdateAttempt(codes, activeCode.id, FALSE, now)
          /\ res' = VerifyRes(p, normalizeOtpCode(input).code, "false", activeCode.id)
          /\ streak' = [streak EXCEPT ![p] = Missed(@, activeCode.id)]
    /\ UNCHANGED offstage /\ UNCHANGED <<now, otpTtlEnv, nextId, issuedLog, vst>>

VerifyMatch(p, input) ==
    /\ normalizeOtpCode(input).ok
    /\ \E activeCode \in ActiveCode(codes, p, now) :
          /\ ~AttemptsExhausted(activeCode.attempts)
          /\ secureEqualHex(activeCode.codeHash,
                            hashOtpCode(p, normalizeOtpCode(input).code))
          /\ codes' = UpdateAttempt(codes, activeCode.id, TRUE, now)
          /\ res' = VerifyRes(p, normalizeOtpCode(input).code, "true", activeCode.id)
    /\ streak' = [streak EXCEPT ![p] = [rec |-> 0, n |-> 0]]
    /\ UNCHANGED offstage /\ UNCHANGED <<now, otpTtlEnv, nextId, issuedLog, vst>>

Verify(p, input) ==
    \/ VerifyMalformed(p, input)
    \/ VerifyNoActive(p, input)
    \/ VerifyExhausted(p, input)
    \/ VerifyMismatch(p, input)
    \/ VerifyMatch(p, input)

\* ------------------------------------------------------------------------
\* The clock

ClockMoves(stepMs, maxTicks) ==
    /\ now < maxTicks * stepMs
    /\ now' = now + stepMs
    /\ res' = NoRes
    /\ UNCHANGED backstage /\ UNCHANGED <<otpTtlEnv, codes, nextId, issuedLog, streak, vst>>

Tick(stepMs, maxTicks) == ClockMoves(stepMs, maxTicks) /\ UNCHANGED frontVars

\* ------------------------------------------------------------------------
\* Spec: calls made one after another.  Both phones request codes, one of
\* them verifies; the time-to-live is 2 minutes (the setting 2.5, floored).
\* With at most MaxIssued + 1 < MAX_REQUESTS_PER_WINDOW rows the rate limit
\* cannot be met (SpecBelowRateLimit), so the rate-limited outcome is left to
\* SpecRate.

Init == InitWith(TtlTwoAndAHalf)

DoIssueCooldown == \E p \in PhoneNumbers : IssueCooldown(p)
DoIssueCreated == \E call \in IssueInputs : IssueCreated(call[1], call[2], MaxIssued)
DoVerifyMalformed == \E p \in VerifiedPhones, input \in CodeInputs : VerifyMalformed(p, input)
DoVerifyNoActive == \E p \in VerifiedPhones, input \in CodeInputs : VerifyNoActive(p, input)
DoVerifyExhausted == \E p \in VerifiedPhones, input \in CodeInputs : VerifyExhausted(p, input)
DoVerifyMismatch == \E p \in VerifiedPhones, input \in CodeInputs : VerifyMismatch(p, input)
DoVerifyMatch == \E p \in VerifiedPhones, input \in CodeInputs : VerifyMatch(p, input)
DoTick == Tick(HalfCooldownMs, MaxTicks)

Next ==
    \/ DoIssueCooldown
    \/ DoIssueCreated
    \/ DoVerifyMalformed
    \/ DoVerifyNoActive
    \/ DoVerifyExhausted
    \/ DoVerifyMismatch
    \/ DoVerifyMatch
    \/ DoTick

Spec == Init /\ [][Next]_vars

\* No issuer call of Spec finds the rate limit met.
SpecBelowRateLimit == \A p \in PhoneNumbers : ~RateLimited(PurgeCodes(codes, now), p, now)

\* ------------------------------------------------------------------------
\* SpecRate: the issuer with all three outcomes over four cooldowns, the
\* default time-to-live of 5 minutes, one phone, and a verifier that is only
\* handed codes that match (or finds no row).

RateInit == InitWith(TtlUnset)

RateIssueRateLimited == \E p \in VerifiedPhones : IssueRateLimited(p)
RateIssueCooldown == \E p \in VerifiedPhones : IssueCooldown(p)
RateIssueCreated == \E p \in VerifiedPhones, n \in RandomInts : IssueCreated(p, n, RateMaxIssued)
RateVerifyNoActive == \E p \in VerifiedPhones, input \in CodeInputs : VerifyNoActive(p, input)
RateVerifyMatch == \E p \in VerifiedPhones, input \in CodeInputs : VerifyMatch(p, input)
RateTick == Tick(CooldownMs, RateMaxTicks)

RateNext ==
    \/ RateIssueRateLimited
    \/ RateIssueCooldown
    \/ RateIssueCreated
    \/ RateVerifyNoActive
    \/ RateVerifyMatch
    \/ RateTick

SpecRate == RateInit /\ [][RateNext]_vars

\* ------------------------------------------------------------------------
\* SpecPhone: normalizePhoneNumber applied to two typed phone numbers, then
\* to what it returned for the first.

PhoneInit ==
    /\ OtpInit(TtlUnset)
    /\ ProfileInit
    /\ FrontInit
    /\ AiInit
    /\ phoneCall \in { [pc |-> "input", a |-> a, b |-> b, ra |-> NullValue, rb |-> NullValue,
                         raa |-> NullValue] : a \in PhoneInputs, b \in PhoneInputs }

PhoneNormalize ==
    /\ phoneCall.pc = "input"
    /\ phoneCall' = [phoneCall EXCEPT !.pc = "normalized",
                                      !.ra = normalizePhoneNumber(phoneCall.a),
                                      !.rb = normalizePhoneNumber(phoneCall.b)]
    /\ UNCHANGED otpVars /\ UNCHANGED profileVars /\ UNCHANGED frontVars /\ UNCHANGED aiRes

PhoneNormalizeAgain ==
    /\ phoneCall.pc = "normalized"
    /\ phoneCall.ra.kind = "str"
    /\ phoneCall' = [phoneCall EXCEPT !.pc = "again",
                                      !.raa = normalizePhoneNumber(phoneCall.ra)]
    /\ UNCHANGED otpVars /\ UNCHANGED profileVars /\ UNCHANGED frontVars /\ UNCHANGED aiRes

PhoneNext ==
    \/ PhoneNormalize
    \/ PhoneNormalizeAgain

SpecPhone == PhoneInit /\ [][PhoneNext]_vars

\* ------------------------------------------------------------------------
\* The psychosocial-profile routes: GET of a profile, GET of its PDF, GET of
\* its access log.  One workspace is requested; its profile pr1 and a profile
\* pr2 of another workspace; an owner, a member and a user with no role in it.

\* assertWorkspaceAccess of @/lib/tenant: the user's role in the workspace is
\* one of the roles allowed
HasWorkspaceAccess(u, w, roles) == RoleInWorkspace(u, w) \in roles

\* as ProfileFound, with the workspaceId condition left out of the where
ProfileFoundInAnyWorkspace(pid, w) == \E row \in profileTable : row.id = pid

\* psychosocialProfile.findFirst where id, workspaceId
ProfileFound(pid, w) == \E row \in profileTable : row.id = pid /\ row.workspaceId = w

\* the status of a request that is refused: 403 without the role, 404
\* without the profile
RefusedStatus(u, w, pid, roles) ==
    IF ~HasWorkspaceAccess(u, w, roles) THEN 403
    ELSE IF ~ProfileFound(pid, w) THEN 404
    ELSE 200

ProfileResponse(op, status, u, w, pid, logs) ==
    [op |-> op, status |-> status, actor |-> u, workspace |-> w, profile |-> pid, logs |-> logs]

AccessLogRow(pid, u, action) == [profileId |-> pid, actorId |-> u, action |-> action]

\* logAudit of @/lib/audit: one row in the workspace's audit log
logAudit(log, w, u, action, metadata) ==
    Append(log, [workspaceId |-> w, actorId |-> u, action |-> action, metadata |-> metadata])

RECURSIVE Reverse(_)
Reverse(s) == IF s = <<>> THEN <<>> ELSE Append(Reverse(Tail(s)), Head(s))

\* profileAccessLog.findMany where profileId, orderBy createdAt desc, take 100
AccessLogsOf(log, pid) ==
    LET newestFirst == Reverse(SelectSeq(log, LAMBDA row : row.profileId = pid))
    IN  SubSeq(newestFirst, 1, Min(Len(newestFirst), 100))

ViewRoles == {"OWNER", "ADMIN", "MEMBER"}
LogRoles == {"OWNER", "ADMIN"}

\* GET .../psychosocial-profiles/[profileId]
GetProfile(u, w, pid, maxLogged) ==
    /\ RefusedStatus(u, w, pid, ViewRoles) = 200
    /\ Len(profileAccessLog) < maxLogged
    /\ profileAccessLog' = Append(profileAccessLog, AccessLogRow(pid, u, "PROFILE_VIEWED"))
    /\ profileRes' = ProfileResponse("view", 200, u, w, pid, <<>>)
    /\ UNCHANGED auditLog
    /\ UNCHANGED otpVars /\ UNCHANGED phoneCall /\ UNCHANGED frontVars
    /\ UNCHANGED <<profileTable, pst, aiRes>>

GetProfileRefused(u, w, pid) ==
    /\ RefusedStatus(u, w, pid, ViewRoles) # 200
    /\ profileRes' = ProfileResponse("view", RefusedStatus(u, w, pid, ViewRoles), u, w, pid, <<>>)
    /\ UNCHANGED <<profileAccessLog, auditLog>>
    /\ UNCHANGED otpVars /\ UNCHANGED phoneCall /\ UNCHANGED frontVars
    /\ UNCHANGED <<profileTable, pst, aiRes>>

\* GET .../psychosocial-profiles/[profileId]/pdf
GetProfilePdf(u, w, pid, maxLogged) ==
    /\ RefusedStatus(u, w, pid, ViewRoles) = 200
    /\ Len(auditLog) < maxLogged
    /\ auditLog' = logAudit(auditLog, w, u,
                            "PSYCHOSOCIAL_PROFILE_PDF_EXPORTED", [profileId |-> pid])
    /\ profileRes' = ProfileResponse("pdf", 200, u, w, pid, <<>>)
    /\ UNCHANGED profileAccessLog
    /\ UNCHANGED otpVars /\ UNCHANGED phoneCall /\ UNCHANGED frontVars
    /\ UNCHANGED <<profileTable, pst, aiRes>>

GetProfilePdfRefused(u, w, pid) ==
    /\ RefusedStatus(u, w, pid, ViewRoles) # 200
    /\ profileRes' = ProfileResponse("pdf", RefusedStatus(u, w, pid, ViewRoles), u, w, pid, <<>>)
    /\ UNCHANGED <<profileAccessLog, auditLog>>
    /\ UNCHANGED otpVars /\ UNCHANGED phoneCall /\ UNCHANGED frontVars
    /\ UNCHANGED <<profileTable, pst, aiRes>>

\* GET .../psychosocial-profiles/[profileId]/access-log
GetAccessLog(u, w, pid) ==
    /\ RefusedStatus(u, w, pid, LogRoles) = 200
    /\ profileRes' = ProfileResponse("log", 200, u, w, pid, AccessLogsOf(profileAccessLog, pid))
    /\ UNCHANGED <<profileAccessLog, auditLog>>
    /\ UNCHANGED otpVars /\ UNCHANGED phoneCall /\ UNCHANGED frontVars
    /\ UNCHANGED <<profileTable, pst, aiRes>>

GetAccessLogRefused(u, w, pid) ==
    /\ RefusedStatus(u, w, pid, LogRoles) # 200
    /\ profileRes' = ProfileResponse("log", RefusedStatus(u, w, pid, LogRoles), u, w, pid, <<>>)
    /\ UNCHANGED <<profileAccessLog, auditLog>>
    /\ UNCHANGED otpVars /\ UNCHANGED phoneCall /\ UNCHANGED frontVars
    /\ UNCHANGED <<profileTable, pst, aiRes>>

\* as UpdateProfile, with version left out of the data
UpdateProfileKeepingVersion(table, pid) == table

\* psychosocialProfile.update where id, data: version incremented
UpdateProfile(table, pid) ==
    { IF row.id = pid THEN [row EXCEPT !.version = @ + 1] ELSE row : row \in table }

\* psychosocialProfile.delete where id; the profile's access-log rows go with
\* it (ON DELETE CASCADE)
DeleteProfileRow(table, pid) == {row \in table : row.id # pid}

CascadeAccessLog(log, pid) == SelectSeq(log, LAMBDA row : row.profileId # pid)

\* PUT .../psychosocial-profiles/[profileId], one request as one step
PutProfile(u, w, pid, body, maxLogged) ==
    /\ RefusedStatus(u, w, pid, LogRoles) = 200
    /\ body = "valid"
    /\ Len(profileAccessLog) < maxLogged
    /\ profileTable' = UpdateProfile(profileTable, pid)
    /\ profileAccessLog' = Append(profileAccessLog, AccessLogRow(pid, u, "PROFILE_UPDATED"))
    /\ profileRes' = ProfileResponse("put", 200, u, w, pid, <<>>)
    /\ UNCHANGED <<auditLog, pst, aiRes>>
    /\ UNCHANGED otpVars /\ UNCHANGED phoneCall /\ UNCHANGED frontVars

\* the schema refuses the body, or assessmentDate is no date
PutProfileInvalid(u, w, pid, body) ==
    /\ RefusedStatus(u, w, pid, LogRoles) = 200
    /\ body # "valid"
    /\ profileRes' = ProfileResponse("put", 400, u, w, pid, <<>>)
    /\ UNCHANGED <<profileAccessLog, auditLog, profileTable, pst, aiRes>>
    /\ UNCHANGED otpVars /\ UNCHANGED phoneCall /\ UNCHANGED frontVars

PutProfileRefused(u, w, pid, body) ==
    /\ RefusedStatus(u, w, pid, LogRoles) # 200
    /\ profileRes' = ProfileResponse("put", RefusedStatus(u, w, pid, LogRoles), u, w, pid, <<>>)
    /\ UNCHANGED <<profileAccessLog, auditLog, profileTable, pst, aiRes>>
    /\ UNCHANGED otpVars /\ UNCHANGED phoneCall /\ UNCHANGED frontVars

\* DELETE .../psychosocial-profiles/[profileId]
DeleteProfile(u, w, pid) ==
    /\ RefusedStatus(u, w, pid, LogRoles) = 200
    /\ profileTable' = DeleteProfileRow(profileTable, pid)
    /\ profileAccessLog' = CascadeAccessLog(profileAccessLog, pid)
    /\ profileRes' = ProfileResponse("delete", 200, u, w, pid, <<>>)
    /\ UNCHANGED <<auditLog, pst, aiRes>>
    /\ UNCHANGED otpVars /\ UNCHANGED phoneCall /\ UNCHANGED frontVars

DeleteProfileRefused(u, w, pid) ==
    /\ RefusedStatus(u, w, pid, LogRoles) # 200
    /\ profileRes' = ProfileResponse("delete", RefusedStatus(u, w, pid, LogRoles), u, w, pid, <<>>)
    /\ UNCHANGED <<profileAccessLog, auditLog, profileTable, pst, aiRes>>
    /\ UNCHANGED otpVars /\ UNCHANGED phoneCall /\ UNCHANGED frontVars

\* ------------------------------------------------------------------------
\* SpecProfile: requests to the three routes, in any order.

ProfileGet == \E u \in Users, pid \in Profiles : GetProfile(u, RequestedWorkspace, pid, MaxLogged)
ProfileGetRefused == \E u \in Users, pid \in Profiles : GetProfileRefused(u, RequestedWorkspace, pid)
ProfilePdf == \E u \in Users, pid \in Profiles : GetProfilePdf(u, RequestedWorkspace, pid, MaxLogged)
ProfilePdfRefused == \E u \in Users, pid \in Profiles : GetProfilePdfRefused(u, RequestedWorkspace, pid)
ProfileLog == \E u \in Users, pid \in Profiles : GetAccessLog(u, RequestedWorkspace, pid)
ProfileLogRefused == \E u \in Users, pid \in Profiles : GetAccessLogRefused(u, RequestedWorkspace, pid)

ProfileNext ==
    \/ ProfileGet
    \/ ProfileGetRefused
    \/ ProfilePdf
    \/ ProfilePdfRefused
    \/ ProfileLog
    \/ ProfileLogRefused

SpecProfile == InitWith(TtlUnset) /\ [][ProfileNext]_vars

\* ------------------------------------------------------------------------
\* verifyPhoneLoginCode as the two database round trips it is: the findFirst
\* with the checks on what it returned, then the update.  Several calls run
\* at once; each keeps what it read.

Reading(p, code, t, id, attempts, valid) ==
    [pc |-> "update", phone |-> p, code |-> code, at |-> t, rec |-> id,
     attempts |-> attempts, valid |-> valid, outcome |-> "none"]

Returned(p, code, t, id, attempts, valid, outcome) ==
    [pc |-> "done", phone |-> p, code |-> code, at |-> t, rec |-> id,
     attempts |-> attempts, valid |-> valid, outcome |-> outcome]

ReadMalformed(v, p, input) ==
    /\ vst[v].pc = "idle"
    /\ ~normalizeOtpCode(input).ok
    /\ vst' = [vst EXCEPT ![v] = Returned(p, <<>>, now, 0, 0, FALSE, "400")]
    /\ UNCHANGED offstage /\ UNCHANGED <<now, otpTtlEnv, codes, nextId, res, issuedLog, streak>>

ReadNoActive(v, p, input) ==
    /\ vst[v].pc = "idle"
    /\ normalizeOtpCode(input).ok
    /\ ActiveCode(codes, p, now) = {}
    /\ vst' = [vst EXCEPT ![v] =
                  Returned(p, normalizeOtpCode(input).code, now, 0, 0, FALSE, "false")]
    /\ UNCHANGED offstage /\ UNCHANGED <<now, otpTtlEnv, codes, nextId, res, issuedLog, streak>>

ReadExhausted(v, p, input) ==
    /\ vst[v].pc = "idle"
    /\ normalizeOtpCode(input).ok
    /\ \E activeCode \in ActiveCode(codes, p, now) :
          /\ AttemptsExhausted(activeCode.attempts)
          /\ vst' = [vst EXCEPT ![v] =
                        Returned(p, normalizeOtpCode(input).code, now, activeCode.id,
                                 activeCode.attempts, FALSE, "false")]
    /\ UNCHANGED offstage /\ UNCHANGED <<now, otpTtlEnv, codes, nextId, res, issuedLog, streak>>

ReadActive(v, p, input) ==
    /\ vst[v].pc = "idle"
    /\ normalizeOtpCode(input).ok
    /\ \E activeCode \in ActiveCode(codes, p, now) :
          /\ ~AttemptsExhausted(activeCode.attempts)
          /\ vst' = [vst EXCEPT ![v] =
                        Reading(p, normalizeOtpCode(input).code, now, activeCode.id,
                                activeCode.attempts,
                                secureEqualHex(activeCode.codeHash,
                                               hashOtpCode(p, normalizeOtpCode(input).code)))]
    /\ UNCHANGED offstage /\ UNCHANGED <<now, otpTtlEnv, codes, nextId, res, issuedLog, streak>>

\* the update finds its row
WriteUpdate(v) ==
    /\ vst[v].pc = "update"
    /\ \E r \in codes : r.id = vst[v].rec
    /\ codes' = UpdateAttempt(codes, vst[v].rec, vst[v].valid, vst[v].at)
    /\ vst' = [vst EXCEPT ![v].pc = "done",
                          ![v].outcome = IF vst[v].valid THEN "true" ELSE "false"]
    /\ UNCHANGED offstage /\ UNCHANGED <<now, otpTtlEnv, nextId, res, issuedLog, streak>>

\* the row was purged after the read: prisma's update throws (record not found)
WriteMissing(v) ==
    /\ vst[v].pc = "update"
    /\ ~\E r \in codes : r.id = vst[v].rec
    /\ vst' = [vst EXCEPT ![v].pc = "done", ![v].outcome = "error"]
    /\ UNCHANGED offstage /\ UNCHANGED <<now, otpTtlEnv, codes, nextId, res, issuedLog, streak>>

\* the caller has its answer; the verifier is free for the next call
Return(v) ==
    /\ vst[v].pc = "done"
    /\ vst' = [vst EXCEPT ![v] = IdleVerifier]
    /\ UNCHANGED offstage /\ UNCHANGED <<now, otpTtlEnv, codes, nextId, res, issuedLog, streak>>

\* ------------------------------------------------------------------------
\* SpecConc: two verifier calls in flight for one phone, the issuer and the
\* clock (stepping by the cooldown) between their round trips.

ConcIssueCooldown == \E p \in VerifiedPhones : IssueCooldown(p)
ConcIssueCreated == \E p \in VerifiedPhones : IssueCreated(p, 42, ConcMaxIssued)
ConcReadMalformed ==
    \E v \in Verifiers, p \in VerifiedPhones, input \in ConcCodeInputs : ReadMalformed(v, p, input)
ConcReadNoActive ==
    \E v \in Verifiers, p \in VerifiedPhones, input \in ConcCodeInputs : ReadNoActive(v, p, input)
ConcReadExhausted ==
    \E v \in Verifiers, p \in VerifiedPhones, input \in ConcCodeInputs : ReadExhausted(v, p, input)
ConcReadActive ==
    \E v \in Verifiers, p \in VerifiedPhones, input \in ConcCodeInputs : ReadActive(v, p, input)
ConcWriteUpdate == \E v \in Verifiers : WriteUpdate(v)
ConcWriteMissing == \E v \in Verifiers : WriteMissing(v)
ConcReturn == \E v \in Verifiers : Return(v)
ConcTick == Tick(CooldownMs, ConcMaxTicks)

ConcNext ==
    \/ ConcIssueCooldown
    \/ ConcIssueCreated
    \/ ConcReadMalformed
    \/ ConcReadNoActive
    \/ ConcReadExhausted
    \/ ConcReadActive
    \/ ConcWriteUpdate
    \/ ConcWriteMissing
    \/ ConcReturn
    \/ ConcTick

SpecConc == Init /\ [][ConcNext]_vars

\* ------------------------------------------------------------------------
\* issuePhoneLoginCode as the database round trips it is: deleteMany, count,
\* findFirst, create.  Several calls run at once; each keeps the time it
\* read at its start.  createdAt is the database's clock at the create.

\* const now = new Date(); deleteMany
IssuerPurge(i, p) ==
    /\ ist[i].pc = "idle"
    /\ codes' = PurgeCodes(codes, now)
    /\ ist' = [ist EXCEPT ![i] = [pc |-> "count", phone |-> p, at |-> now,
                                  outcome |-> "none", rec |-> 0, wait |-> 0]]
    /\ UNCHANGED <<now, otpTtlEnv, nextId, res, issuedLog, streak, vst>>
    /\ UNCHANGED phoneCall /\ UNCHANGED profileVars /\ UNCHANGED frontVars /\ UNCHANGED aiRes

\* count; below the limit
IssuerCountBelow(i) ==
    /\ ist[i].pc = "count"
    /\ ~RateLimited(codes, ist[i].phone, ist[i].at)
    /\ ist' = [ist EXCEPT ![i].pc = "latest"]
    /\ UNCHANGED <<now, otpTtlEnv, codes, nextId, res, issuedLog, streak, vst>>
    /\ UNCHANGED phoneCall /\ UNCHANGED profileVars /\ UNCHANGED frontVars /\ UNCHANGED aiRes

\* count; throw new HttpError(429, 'Prea multe coduri solicitate...')
IssuerCountRateLimited(i) ==
    /\ ist[i].pc = "count"
    /\ RateLimited(codes, ist[i].phone, ist[i].at)
    /\ ist' = [ist EXCEPT ![i].pc = "done", ![i].outcome = "rate"]
    /\ UNCHANGED <<now, otpTtlEnv, codes, nextId, res, issuedLog, streak, vst>>
    /\ UNCHANGED phoneCall /\ UNCHANGED profileVars /\ UNCHANGED frontVars /\ UNCHANGED aiRes

\* findFirst; no row, or the cooldown is over
IssuerLatestClear(i) ==
    /\ ist[i].pc = "latest"
    /\ \A latest \in LatestFor(codes, ist[i].phone) : ~InCooldown(ist[i].at, latest)
    /\ ist' = [ist EXCEPT ![i].pc = "create"]
    /\ UNCHANGED <<now, otpTtlEnv, codes, nextId, res, issuedLog, streak, vst>>
    /\ UNCHANGED phoneCall /\ UNCHANGED profileVars /\ UNCHANGED frontVars /\ UNCHANGED aiRes

\* findFirst; throw new HttpError(429, `Asteapta ...`)
IssuerLatestCooldown(i) ==
    /\ ist[i].pc = "latest"
    /\ \E latest \in LatestFor(codes, ist[i].phone) :
          /\ InCooldown(ist[i].at, latest)
          /\ ist' = [ist EXCEPT ![i].pc = "done", ![i].outcome = "cooldown",
                                ![i].wait = RESEND_COOLDOWN_SECONDS
                                              - secondsSinceLast(ist[i].at, latest)]
    /\ UNCHANGED <<now, otpTtlEnv, codes, nextId, res, issuedLog, streak, vst>>
    /\ UNCHANGED phoneCall /\ UNCHANGED profileVars /\ UNCHANGED frontVars /\ UNCHANGED aiRes

\* create; return { code, expiresAt }
IssuerCreate(i, n, maxIssued) ==
    /\ ist[i].pc = "create"
    /\ nextId <= maxIssued
    /\ codes' = codes \cup
                  { [NewCode(nextId, ist[i].phone, MintCode(n), ist[i].at, otpTtlEnv)
                       EXCEPT !.createdAt = now] }
    /\ nextId' = nextId + 1
    /\ issuedLog' = [issuedLog EXCEPT ![ist[i].phone] = Append(@, now)]
    /\ ist' = [ist EXCEPT ![i].pc = "done", ![i].outcome = "ok", ![i].rec = nextId]
    /\ UNCHANGED <<now, otpTtlEnv, res, streak, vst>>
    /\ UNCHANGED phoneCall /\ UNCHANGED profileVars /\ UNCHANGED frontVars /\ UNCHANGED aiRes

\* the caller has its answer; the issuer is free for the next call
IssuerReturn(i) ==
    /\ ist[i].pc = "done"
    /\ ist' = [ist EXCEPT ![i] = IdleIssuer]
    /\ UNCHANGED <<now, otpTtlEnv, codes, nextId, res, issuedLog, streak, vst>>
    /\ UNCHANGED phoneCall /\ UNCHANGED profileVars /\ UNCHANGED frontVars /\ UNCHANGED aiRes

\* ------------------------------------------------------------------------
\* SpecIssuers: two issuer calls in flight for one phone, the default
\* time-to-live, the clock stepping by the cooldown between their round trips.

IssuersPurge == \E i \in Issuers, p \in VerifiedPhones : IssuerPurge(i, p)
IssuersCountBelow == \E i \in Issuers : IssuerCountBelow(i)
IssuersCountRateLimited == \E i \in Issuers : IssuerCountRateLimited(i)
IssuersLatestClear == \E i \in Issuers : IssuerLatestClear(i)
IssuersLatestCooldown == \E i \in Issuers : IssuerLatestCooldown(i)
IssuersCreate == \E i \in Issuers : IssuerCreate(i, 42, IssuerMaxIssued)
IssuersReturn == \E i \in Issuers : IssuerReturn(i)
IssuersTick == Tick(CooldownMs, IssuerMaxTicks)

IssuersNext ==
    \/ IssuersPurge
    \/ IssuersCountBelow
    \/ IssuersCountRateLimited
    \/ IssuersLatestClear
    \/ IssuersLatestCooldown
    \/ IssuersCreate
    \/ IssuersReturn
    \/ IssuersTick

SpecIssuers == InitWith(TtlUnset) /\ [][IssuersNext]_vars

\* ------------------------------------------------------------------------
\* What the claims read off a state

\* the successful issuances for the phone of the issuer call in res, that
\* call's own issuance left out
PriorIssued ==
    LET log == issuedLog[res.phone]
    IN  IF res.outcome = "ok" THEN SubSeq(log, 1, Len(log) - 1) ELSE log

IssuedSince(t) == {i \in 1..Len(PriorIssued) : PriorIssued[i] >= t}

RowById(id) == {r \in codes : r.id = id}

\* ------------------------------------------------------------------------
\* C1: once 5 issuances for a phone have succeeded within the trailing 15
\* minutes, a further issuer call for that phone is rejected with the
\* rate-limit error.  (SpecRate)
C1_SixthIssuanceRateLimited ==
    ( /\ res.op = "issue"
      /\ Cardinality(IssuedSince(now - REQUEST_WINDOW_MINUTES * 60 * 1000))
            >= MAX_REQUESTS_PER_WINDOW )
    => res.outcome = "rate"

\* C2: an issuer call for a phone made less than 60 seconds after a
\* successful issuance for that phone is rejected with the cooldown error.
C2_ReissueInsideCooldownRejected ==
    ( /\ res.op = "issue"
      /\ \E i \in 1..Len(PriorIssued) : now - PriorIssued[i] < RESEND_COOLDOWN_SECONDS * 1000 )
    => res.outcome = "cooldown"

\* C3: a verification that returns true consumes the row it matched, and the
\* same call repeated with no issuer call in between returns false: no
\* verification returns true while a row consumed for the same phone and code
\* is still stored.
C3_VerifiedCodeNotVerifiedAgain ==
    (res.op = "verify" /\ res.outcome = "true")
    => /\ \E r \in RowById(res.rec) : r.consumedAt # {}
       /\ ~\E r \in codes :
              /\ r.id # res.rec
              /\ r.phoneNumber = res.phone
              /\ r.consumedAt # {}
              /\ r.codeHash = hashOtpCode(res.phone, res.code)

C5_ExpiredRowNotSelected ==
    (res.op = "verify")
    => /\ \A r \in RowById(res.rec) : now < r.expiresAt
       /\ res.outcome = "true" => RowById(res.rec) # {}

\* the right code at the very millisecond of expiry, attempts left: false
C5_Witness ==
    /\ res.op = "verify" /\ res.outcome = "false"
    /\ \E r \in codes :
          /\ r.phoneNumber = res.phone
          /\ r.codeHash = <<res.phone, res.code>>
          /\ r.expiresAt = now
          /\ r.attempts < 5
          /\ r.consumedAt = {}

\* C6: round trip.  For the newest row of a phone, unexpired, unconsumed and
\* with k < 5 attempts: a wrong code returns false and leaves attempts k + 1,
\* the row's code returns true, sets consumedAt and leaves attempts k + 1;
\* and once that row is consumed, the same code submitted again returns false.
C6_IssueVerifyRoundTrip ==
    [][ \A p \in VerifiedPhones, input \in CodeInputs :
          LET code == SelectSeq(input, LAMBDA ch : ch \notin {" ", "\t"})
          IN  (Verify(p, input) /\ res'.outcome # "400")
              => /\ \A r \in LatestFor(codes, p) :
                      (now < r.expiresAt /\ r.consumedAt = {} /\ r.attempts < 5)
                      => \E q \in codes' :
                            /\ q.id = r.id
                            /\ q.attempts = r.attempts + 1
                            /\ IF r.codeHash = <<p, code>>
                               THEN res'.outcome = "true" /\ q.consumedAt = {now}
                               ELSE res'.outcome = "false" /\ q.consumedAt = {}
                 /\ \A r \in LatestFor(codes, p) :
                      (r.consumedAt # {} /\ r.codeHash = <<p, code>>)
                      => res'.outcome = "false" ]_vars

\* the inputs that are not exactly 6 digits once their whitespace is stripped
C7_MalformedInputs ==
    { input \in CodeInputs :
        LET compact == SelectSeq(input, LAMBDA ch : ch \notin {" ", "\t"})
        IN  ~ ( /\ Len(compact) = 6
                /\ \A i \in 1..Len(compact) :
                      compact[i] \in {"0", "1", "2", "3", "4", "5", "6", "7", "8", "9"} ) }

\* C7: a code that is not exactly 6 digits once its whitespace is stripped
\* gets the validation error, never false, and no row changes.
C7_MalformedCodeRejected ==
    [][ \/ (res'.outcome = "400" /\ codes' = codes)
        \/ \A p \in VerifiedPhones, input \in C7_MalformedInputs : ~Verify(p, input) ]_vars

C7_Witness == res.op = "verify" /\ res.outcome = "400"

\* C8: every stored row has attempts <= 5, also when verifier calls for the
\* same phone interleave their read and their update.  (SpecConc)
C8_AttemptsNeverAboveMax == \A r \in codes : r.attempts <= 5

\* C9: a row that is attempts-exhausted and not consumed is never consumed
\* afterwards, and a consumed row never becomes unconsumed again, over all
\* interleavings of verifier calls.  (SpecConc)
C9_TerminalStatesStay ==
    [][ \A r \in codes : \A q \in codes' :
          (q.id = r.id)
          => /\ (r.attempts >= 5 /\ r.consumedAt = {}) => q.consumedAt = {}
             /\ r.consumedAt # {} => q.consumedAt # {} ]_vars

\* C10: two verifier calls that both read the same pending row with its
\* code before either update lands, and whose updates both land, both return
\* true, and the row ends consumed with attempts raised by 2.  (SpecConc)
C10_BothCorrectCallsSucceed ==
    \A v, w \in Verifiers :
        ( /\ v # w
          /\ vst[v].pc = "done" /\ vst[w].pc = "done"
          /\ vst[v].rec # 0 /\ vst[v].rec = vst[w].rec
          /\ vst[v].attempts = vst[w].attempts
          /\ vst[v].valid /\ vst[w].valid
          /\ vst[v].outcome # "error" /\ vst[w].outcome # "error" )
        => /\ vst[v].outcome = "true" /\ vst[w].outcome = "true"
           /\ \A r \in RowById(vst[v].rec) :
                 r.consumedAt # {} /\ r.attempts = vst[v].attempts + 2

C10_Witness ==
    \E v, w \in Verifiers :
        /\ v # w
        /\ vst[v].pc = "done" /\ vst[w].pc = "done"
        /\ vst[v].outcome = "true" /\ vst[w].outcome = "true"
        /\ vst[v].rec = vst[w].rec
        /\ vst[v].attempts = vst[w].attempts
        /\ \E r \in RowById(vst[v].rec) :
              r.consumedAt # {} /\ r.attempts = vst[v].attempts + 2

\* the rows of the next state that the step created
CreatedRows == {r \in codes' : ~\E o \in codes : o.id = r.id}

\* C11: every issuer call either returns a 6-digit code and an expiry after
\* creating exactly one row for its phone, with attempts 0, consumedAt null,
\* the keyed hash of phone and code in codeHash and no column for the code
\* itself, or throws the rate-limit or the cooldown error and creates no row.
\* (SpecRate)
C11_IssuerCreatesOneOrThrows ==
    [][ (res'.op = "issue")
        => \/ /\ res'.outcome = "ok"
              /\ Len(res'.code) = 6
              /\ \A i \in 1..Len(res'.code) :
                    res'.code[i] \in {"0", "1", "2", "3", "4", "5", "6", "7", "8", "9"}
              /\ Cardinality(CreatedRows) = 1
              /\ \A r \in CreatedRows :
                    /\ r.id = res'.rec
                    /\ r.phoneNumber = res'.phone
                    /\ r.attempts = 0
                    /\ r.consumedAt = {}
                    /\ r.codeHash = hashOtpCode(res'.phone, res'.code)
                    /\ r.expiresAt = res'.expiresAt
                    /\ r.expiresAt > now
                    /\ DOMAIN r = {"id", "phoneNumber", "codeHash", "expiresAt",
                                   "attempts", "consumedAt", "createdAt"}
           \/ /\ res'.outcome \in {"rate", "cooldown"}
              /\ CreatedRows = {} ]_vars

\* an accepted call whose random number needed the left padding
C11_Witness ==
    /\ res.op = "issue" /\ res.outcome = "ok"
    /\ res.code = <<"0", "0", "0", "0", "4", "2">>
    /\ \E r \in RowById(res.rec) : r.attempts = 0 /\ r.createdAt = now

\* C12: a verifier call with a well-formed code that does not succeed gives
\* its caller the value false and no error, whichever the cause: no active
\* row, an exhausted attempt counter, or a hash mismatch.  (SpecConc)
C12_FailuresLookAlike ==
    \A v \in Verifiers :
        (vst[v].pc = "done" /\ vst[v].outcome # "400" /\ ~vst[v].valid)
        => vst[v].outcome = "false"

\* a typed phone number with its separators taken out and a leading 00
\* written as +
C13_Unseparated(x) ==
    LET bare == SelectSeq(x.text, LAMBDA ch : ch \notin {"(", ")", "-", ".", " ", "\t"})
    IN  [kind |-> x.kind,
         text |-> IF Len(bare) >= 2 /\ bare[1] = "0" /\ bare[2] = "0"
                  THEN <<"+">> \o SubSeq(bare, 3, Len(bare))
                  ELSE bare]

\* null, the error, or a plus followed by 8 to 15 digits; null for blank input only
C13_CanonicalShape(x, r) ==
    /\ r.kind \in {"null", "error", "str"}
    /\ r.kind = "null" <=> (x.kind = "null" \/ \A i \in 1..Len(x.text) : x.text[i] \in {" ", "\t"})
    /\ r.kind = "str" =>
          /\ Len(r.text) \in 9..16
          /\ r.text[1] = "+"
          /\ \A i \in 2..Len(r.text) :
                r.text[i] \in {"0", "1", "2", "3", "4", "5", "6", "7", "8", "9"}

\* C13: normalizePhoneNumber returns null (empty input), throws, or returns a
\* plus followed by 8 to 15 digits; applied to what it returned it returns the
\* same; and inputs that differ only in separators or in a leading 00 for +
\* get the same result.  (SpecPhone)
C13_PhoneNumberCanonical ==
    (phoneCall.pc \in {"normalized", "again"})
    => /\ C13_CanonicalShape(phoneCall.a, phoneCall.ra)
       /\ phoneCall.pc = "again" => phoneCall.raa = phoneCall.ra
       /\ C13_Unseparated(phoneCall.a) = C13_Unseparated(phoneCall.b)
             => phoneCall.ra = phoneCall.rb

\* C13 as amended: the same, the last part for inputs of at most 24
\* characters.  (SpecPhone)
C13_PhoneNumberCanonicalUpTo24 ==
    (phoneCall.pc \in {"normalized", "again"})
    => /\ C13_CanonicalShape(phoneCall.a, phoneCall.ra)
       /\ phoneCall.pc = "again" => phoneCall.raa = phoneCall.ra
       /\ ( /\ C13_Unseparated(phoneCall.a) = C13_Unseparated(phoneCall.b)
            /\ Len(phoneCall.a.text) <= 24
            /\ Len(phoneCall.b.text) <= 24 )
             => phoneCall.ra = phoneCall.rb

\* 00 and separators on one side, + and none on the other, one number out,
\* and the same number out of that
C13_Witness ==
    /\ phoneCall.pc = "again"
    /\ phoneCall.a.text # phoneCall.b.text
    /\ phoneCall.a.text # <<>> /\ Head(phoneCall.a.text) = "0"
    /\ phoneCall.b.text # <<>> /\ Head(phoneCall.b.text) = "+"
    /\ \E i \in 1..Len(phoneCall.a.text) : phoneCall.a.text[i] = "-"
    /\ phoneCall.ra.kind = "str"
    /\ phoneCall.ra = phoneCall.rb
    /\ phoneCall.raa = phoneCall.ra

\* C14: every successful GET of a profile and every successful download of
\* its PDF appends to the ProfileAccessLog table, which the access-log route
\* reads, a row naming that profile and the acting user.  (SpecProfile)
C14_ViewAndPdfLogged ==
    [][ ( /\ profileRes'.op \in {"view", "pdf"}
          /\ profileRes'.status = 200
          /\ <<profileAccessLog, auditLog, profileRes>>' # <<profileAccessLog, auditLog, profileRes>> )
        => /\ Len(profileAccessLog') = Len(profileAccessLog) + 1
           /\ profileAccessLog'[Len(profileAccessLog')].profileId = profileRes'.profile
           /\ profileAccessLog'[Len(profileAccessLog')].actorId = profileRes'.actor ]_vars

\* the rows of res'.phone that are unconsumed and unexpired before the step
PendingBefore ==
    {r \in codes : r.phoneNumber = res'.phone /\ r.consumedAt = {} /\ r.expiresAt > now}

NewestPendingBefore == {r \in PendingBefore : \A o \in PendingBefore : o.createdAt <= r.createdAt}

\* one row at most is compared with, the newest pending one, and no other
\* row is modified
C15_OnlyNewestTouched ==
    /\ Cardinality(NewestPendingBefore) <= 1
    /\ \A r \in codes : r \notin NewestPendingBefore => r \in codes'
    /\ \A q \in codes' : \E r \in codes : r.id = q.id
    /\ res'.outcome = "true"
          => \E r \in NewestPendingBefore : r.codeHash = <<res'.phone, res'.code>>

\* C15: a verifier call compares the code with one row only, the newest of
\* the phone's unconsumed, unexpired rows, and modifies no other row; while
\* that row exists, the code of an older pending row of the phone returns
\* false and adds one to the attempts of the newest row.
C15_OlderCodeCountsAgainstNewest ==
    [][ (res'.op = "verify" /\ res'.outcome # "400")
        => /\ C15_OnlyNewestTouched
           /\ \A n \in NewestPendingBefore :
                 ( \E o \in PendingBefore :
                       /\ o.createdAt < n.createdAt
                       /\ o.codeHash = <<res'.phone, res'.code>> )
                 => /\ res'.outcome = "false"
                    /\ \E q \in codes' :
                          q.id = n.id /\ q.attempts = n.attempts + 1 /\ q.consumedAt = {} ]_vars

\* C15 as amended: the same, the last part while the newest row has fewer
\* than 5 attempts and for a code that is not also the newest row's.
C15_OlderCodeCountsAgainstUsableNewest ==
    [][ (res'.op = "verify" /\ res'.outcome # "400")
        => /\ C15_OnlyNewestTouched
           /\ \A n \in NewestPendingBefore :
                 ( /\ n.attempts < 5
                   /\ n.codeHash # <<res'.phone, res'.code>>
                   /\ \E o \in PendingBefore :
                         /\ o.createdAt < n.createdAt
                         /\ o.codeHash = <<res'.phone, res'.code>> )
                 => /\ res'.outcome = "false"
                    /\ \E q \in codes' :
                          q.id = n.id /\ q.attempts = n.attempts + 1 /\ q.consumedAt = {} ]_vars

\* the older row's code was submitted and counted against the newer row
C15_Witness ==
    /\ res.op = "verify" /\ res.outcome = "false"
    /\ \E n \in RowById(res.rec) : \E o \in codes :
          /\ o.phoneNumber = n.phoneNumber
          /\ o.createdAt < n.createdAt
          /\ o.consumedAt = {} /\ o.expiresAt > now /\ o.attempts = 0
          /\ o.codeHash = <<res.phone, res.code>>
          /\ n.codeHash # o.codeHash
          /\ n.attempts = 1 /\ n.consumedAt = {}

\* C16: every issuer call, accepted or rejected, deletes all and only the
\* rows, of any phone, that are expired (expiresAt < now), consumed or have
\* attempts >= 5; and no step deletes a row that is unexpired, unconsumed and
\* has attempts < 5.
C16_PurgeAllAndOnlyDeadRows ==
    [][ /\ (res'.op = "issue")
            => \A r \in codes :
                  r \in codes' <=> ~(r.expiresAt < now \/ r.consumedAt # {} \/ r.attempts >= 5)
        /\ \A r \in codes :
              (r.expiresAt >= now /\ r.consumedAt = {} /\ r.attempts < 5)
              => \E q \in codes' : q.id = r.id ]_vars

\* a rejected call for one phone has removed the consumed row of the other
\* phone and kept its own pending row
C16_Witness ==
    /\ res.op = "issue" /\ res.outcome = "cooldown"
    /\ nextId = 3
    /\ \E r \in codes :
          /\ codes = {r}
          /\ r.phoneNumber = res.phone
          /\ r.expiresAt >= now /\ r.consumedAt = {} /\ r.attempts < 5

\* C17: a verifier call that finds no unconsumed, unexpired row of the phone,
\* or whose selected row already has attempts >= 5, returns false and leaves
\* every stored row as it was.
C17_NothingWrittenWithoutComparison ==
    [][ ( /\ res'.op = "verify" /\ res'.outcome # "400"
          /\ \A n \in NewestPendingBefore : n.attempts >= 5 )
        => (res'.outcome = "false" /\ codes' = codes) ]_vars

\* the right code against a row that has its 5 attempts: false, still 5
C17_Witness ==
    /\ res.op = "verify" /\ res.outcome = "false"
    /\ \E r \in RowById(res.rec) :
          /\ r.attempts = 5 /\ r.consumedAt = {} /\ r.expiresAt > now
          /\ r.codeHash = <<res.phone, res.code>>

\* the step is a verifier call that compares its code with row r
C18_ComparedWith(r) ==
    /\ res'.op = "verify" /\ res'.outcome # "400"
    /\ r \in NewestPendingBefore
    /\ r.attempts < 5

\* C18: a verifier call that reaches the comparison adds exactly 1 to the
\* attempts of the selected row, on a match and on a mismatch; a row starts
\* with attempts 0 and no other step changes its attempts, so that a row's
\* attempts is the number of comparisons made against it.
C18_AttemptsCountComparisons ==
    [][ /\ \A r \in codes :
              /\ C18_ComparedWith(r) => \E q \in codes' : q.id = r.id
              /\ \A q \in codes' :
                    (q.id = r.id)
                    => q.attempts = r.attempts + (IF C18_ComparedWith(r) THEN 1 ELSE 0)
        /\ \A q \in CreatedRows : q.attempts = 0
        /\ (res'.op = "verify" /\ res'.outcome = "true" /\ res' # res)
              => \E r \in codes : C18_ComparedWith(r) ]_vars

\* two wrong codes and then the right one: attempts 3
C18_Witness ==
    /\ res.op = "verify" /\ res.outcome = "true"
    /\ \E r \in RowById(res.rec) : r.attempts = 3 /\ r.consumedAt # {}

\* C19: once a later issuance for the phone has succeeded, no verifier call
\* returns true on a row created before it, whatever became of the later
\* row.  (A later row that is still stored and carries the same code is not
\* held against the call.)
C19_NewCodeSupersedesOlder ==
    (res.op = "verify" /\ res.outcome = "true")
    => \A r \in RowById(res.rec) :
          (\E i \in 1..Len(issuedLog[res.phone]) : issuedLog[res.phone][i] > r.createdAt)
          => \E n \in codes :
                /\ n.phoneNumber = res.phone
                /\ n.createdAt > r.createdAt
                /\ n.codeHash = r.codeHash

\* C20: with issuer calls for one phone interleaved, the table never holds
\* two rows of the phone created less than 60 seconds apart, nor more than 5
\* rows of it created within 15 minutes.  (SpecIssuers)
C20_ConcurrentIssuersKeepLimits ==
    \A r \in codes :
        /\ \A q \in codes :
              (q.id # r.id /\ q.phoneNumber = r.phoneNumber /\ q.createdAt <= r.createdAt)
              => r.createdAt - q.createdAt >= 60 * 1000
        /\ Cardinality({q \in codes :
                            /\ q.phoneNumber = r.phoneNumber
                            /\ q.createdAt <= r.createdAt
                            /\ q.createdAt > r.createdAt - 15 * 60 * 1000}) <= 5

\* ------------------------------------------------------------------------
\* SpecLockout: calls made one after another, both phones requesting codes,
\* with room for a third row; the clock steps by the whole cooldown and the
\* time-to-live is 2 minutes.

LockoutIssueCooldown == \E p \in PhoneNumbers : IssueCooldown(p)
LockoutIssueCreated == \E call \in IssueInputs : IssueCreated(call[1], call[2], LockoutMaxIssued)
LockoutVerifyNoActive == \E p \in VerifiedPhones, input \in ConcCodeInputs : VerifyNoActive(p, input)
LockoutVerifyExhausted == \E p \in VerifiedPhones, input \in ConcCodeInputs : VerifyExhausted(p, input)
LockoutVerifyMismatch == \E p \in VerifiedPhones, input \in ConcCodeInputs : VerifyMismatch(p, input)
LockoutVerifyMatch == \E p \in VerifiedPhones, input \in ConcCodeInputs : VerifyMatch(p, input)
LockoutTick == Tick(CooldownMs, LockoutMaxTicks)

LockoutNext ==
    \/ LockoutIssueCooldown
    \/ LockoutIssueCreated
    \/ LockoutVerifyNoActive
    \/ LockoutVerifyExhausted
    \/ LockoutVerifyMismatch
    \/ LockoutVerifyMatch
    \/ LockoutTick

SpecLockout == InitWith(TtlTwoAndAHalf) /\ [][LockoutNext]_vars

\* ------------------------------------------------------------------------
\* C21

\* the newest active row of p has used up its attempts
C21_LockedOut(store, p, t) ==
    \E activeCode \in ActiveCode(store, p, t) : AttemptsExhausted(activeCode.attempts)

\* some well-formed code would make a verifier call for p return true
C21_SomeCodeVerifies(store, p, t) ==
    \E input \in CodeInputs :
        /\ normalizeOtpCode(input).ok
        /\ \E activeCode \in ActiveCode(store, p, t) :
              /\ ~AttemptsExhausted(activeCode.attempts)
              /\ secureEqualHex(activeCode.codeHash,
                                hashOtpCode(p, normalizeOtpCode(input).code))

\* C21: once the active row of a phone has reached 5 attempts, no call other
\* than an issuance that succeeds for that phone brings the phone to a state
\* in which a verifier call returns true.
C21_LockoutUntilIssued ==
    [][ \A p \in VerifiedPhones :
          ( /\ C21_LockedOut(codes, p, now)
            /\ ~(res'.op = "issue" /\ res'.outcome = "ok" /\ res'.phone = p) )
          => ~C21_SomeCodeVerifies(codes', p, now') ]_vars

\* ------------------------------------------------------------------------
\* SpecBinding: calls made one after another, one phone requesting codes up
\* to the rate limit and verifying them, the other phone requesting a code
\* once at any moment, randomInt returning the same digits for both; the
\* verifier is handed a code that matches or finds no row.  The clock steps by the whole cooldown and the time-to-live is
\* the default 5 minutes.

BindingIssueRateLimited == \E p \in VerifiedPhones : IssueRateLimited(p)
BindingIssueCooldown == \E p \in PhoneNumbers : IssueCooldown(p)
BindingIssueCreated ==
    \E p \in PhoneNumbers :
        /\ p \in VerifiedPhones \/ issuedLog[p] = <<>>
        /\ IssueCreated(p, 111111, BindingMaxIssued)
BindingVerifyNoActive == \E p \in VerifiedPhones, input \in ConcCodeInputs : VerifyNoActive(p, input)
BindingVerifyMatch == \E p \in VerifiedPhones, input \in ConcCodeInputs : VerifyMatch(p, input)
BindingTick == Tick(CooldownMs, BindingMaxTicks)

BindingNext ==
    \/ BindingIssueRateLimited
    \/ BindingIssueCooldown
    \/ BindingIssueCreated
    \/ BindingVerifyNoActive
    \/ BindingVerifyMatch
    \/ BindingTick

SpecBinding == InitWith(TtlUnset) /\ [][BindingNext]_vars

\* ------------------------------------------------------------------------
\* C22

C22_RowsOf(store, p) == {r \in store : r.phoneNumber = p}

C22_RowsOfOthers(store, p) == {r \in store : r.phoneNumber # p}

\* what the issuer answers for p when the table holds the rows of p only
C22_IssuerOutcome(own, p, t) ==
    LET kept == PurgeCodes(own, t) IN
    IF RateLimited(kept, p, t) THEN "rate"
    ELSE IF \E latest \in LatestFor(kept, p) : InCooldown(t, latest) THEN "cooldown"
    ELSE "ok"

\* C22: a verifier call for a phone leaves the rows of other phones as they
\* are and returns true only on a row of its own phone holding the hash of
\* that phone and the code; rows of different phones never hold equal hashes,
\* equal digits included; an issuer call for a phone answers as it would with
\* the rows of that phone alone in the table, and what it leaves of the rows
\* of other phones is what their own next issuer call would keep.
\* (SpecBinding)
C22_CodesBoundToPhone ==
    [][ /\ (res'.op = "verify")
           => /\ C22_RowsOfOthers(codes', res'.phone) = C22_RowsOfOthers(codes, res'.phone)
              /\ res'.rec # 0 => \E r \in C22_RowsOf(codes, res'.phone) : r.id = res'.rec
              /\ res'.outcome = "true"
                 => \E r \in C22_RowsOf(codes, res'.phone) :
                       /\ r.id = res'.rec
                       /\ secureEqualHex(r.codeHash, hashOtpCode(res'.phone, res'.code))
        /\ \A r \in codes', q \in codes' :
              r.phoneNumber # q.phoneNumber => ~secureEqualHex(r.codeHash, q.codeHash)
        /\ (res'.op = "issue")
           => /\ res'.outcome = C22_IssuerOutcome(C22_RowsOf(codes, res'.phone), res'.phone, now)
              /\ \A p \in PhoneNumbers \ {res'.phone} :
                    PurgeCodes(C22_RowsOf(codes', p), now) = PurgeCodes(C22_RowsOf(codes, p), now)
      ]_vars

\* a verifier call returned false for digits that a stored row of the other
\* phone and a stored row of its own phone both carry
C22_Witness ==
    /\ res.op = "verify" /\ res.outcome = "false"
    /\ \E r \in C22_RowsOfOthers(codes, res.phone) :
          r.codeHash = hashOtpCode(r.phoneNumber, res.code)
    /\ \E r \in C22_RowsOf(codes, res.phone) :
          r.codeHash = hashOtpCode(r.phoneNumber, res.code)

\* ------------------------------------------------------------------------
\* C23

\* the row of the next state with the id of r, if the step kept it
C23_After(r) == {q \in codes' : q.id = r.id}

\* C23: a stored row keeps its phoneNumber, codeHash, expiresAt and createdAt
\* and its attempts never go down; a step that changes a row is a verifier
\* call, a step after which a row is gone or a new row is there is an issuer
\* call.  (SpecLockout)
C23_RowsFrame ==
    [][ /\ \A r \in codes :
              /\ Cardinality(C23_After(r)) <= 1
              /\ \A q \in C23_After(r) :
                    /\ q.phoneNumber = r.phoneNumber
                    /\ q.codeHash = r.codeHash
                    /\ q.expiresAt = r.expiresAt
                    /\ q.createdAt = r.createdAt
                    /\ q.attempts >= r.attempts
                    /\ q # r => res'.op = "verify"
              /\ C23_After(r) = {} => res'.op = "issue"
        /\ CreatedRows # {} => res'.op = "issue" ]_vars

\* a verifier call has consumed a row that had missed attempts, and an
\* issuer call has removed a row since
C23_Witness ==
    /\ res.op = "verify" /\ res.outcome = "true"
    /\ \E r \in RowById(res.rec) : r.attempts >= 2 /\ r.consumedAt # {}
    /\ \E id \in 1..(nextId - 1) : RowById(id) = {}

\* ------------------------------------------------------------------------
\* SpecTtl: the issuer under every setting of PHONE_OTP_TTL_MINUTES, one
\* phone, the clock stepping by the whole cooldown.

TtlInit == \E env \in TtlSettings : InitWith(env)

TtlIssueCooldown == \E p \in VerifiedPhones : IssueCooldown(p)
TtlIssueCreated == \E p \in VerifiedPhones : IssueCreated(p, 42, TtlMaxIssued)
TtlTick == Tick(CooldownMs, TtlMaxTicks)

TtlNext ==
    \/ TtlIssueCooldown
    \/ TtlIssueCreated
    \/ TtlTick

SpecTtl == TtlInit /\ [][TtlNext]_vars

\* ------------------------------------------------------------------------
\* C24

\* the whole minutes in a finite setting: the k with k <= v < k + 1
C24_Floor(tenths) ==
    CHOOSE k \in (0 - TtlMaxTenths - 1)..(TtlMaxTenths + 1) : 10 * k <= tenths /\ tenths < 10 * k + 10

C24_Minutes(env) ==
    IF env.kind = "num"
    THEN IF C24_Floor(env.tenths) < 1 THEN 1
         ELSE IF C24_Floor(env.tenths) > 15 THEN 15
         ELSE C24_Floor(env.tenths)
    ELSE 5

C25_CooldownWaitOneToSixty ==
    [][ \A i \in Issuers :
          (ist[i].pc = "latest" /\ ist'[i].outcome = "cooldown")
          => /\ \E latest \in LatestFor(codes, ist[i].phone) :
                   ist'[i].wait = 60 - ((ist[i].at - latest.createdAt) \div 1000)
             /\ ist'[i].wait \in 1..60 ]_vars

\* ------------------------------------------------------------------------
\* The request-code route (POST): schema, normalizePhoneNumber, the user
\* lookup, issuePhoneLoginCode, dispatchPhoneCode, the response.  One request
\* is one step.

\* the phone numbers as the characters typed
PhoneChars ==
    [p \in PhoneNumbers |->
        IF p = "+40711111111"
        THEN <<"+", "4", "0", "7", "1", "1", "1", "1", "1", "1", "1", "1">>
        ELSE <<"+", "4", "0", "7", "2", "2", "2", "2", "2", "2", "2", "2">>]

\* the User table: one user signs in by phone, the other has a phone number
\* and phoneAuthEnabled false
UserRows ==
    { [id |-> "ana", phoneNumber |-> "+40711111111", phoneAuthEnabled |-> TRUE],
      [id |-> "mihai", phoneNumber |-> "+40722222222", phoneAuthEnabled |-> FALSE] }

\* what is posted as phoneNumber: the first user's number with 00 and
\* separators, the second user's number, a number of no user, a string that
\* is too short, blanks, and a string with a letter
RequestInputs ==
    { <<"0", "0", "4", "0", " ", "7", "1", "1", "-", "1", "1", "1", "-", "1", "1", "1">>,
      <<"+", "4", "0", "7", "2", "2", "2", "2", "2", "2", "2", "2">>,
      <<"+", "4", "0", "7", "3", "3", "3", "3", "3", "3", "3", "3">>,
      <<"0", "7", "1", "1">>,
      <<" ", " ", " ", " ", " ", " ", " ", " ">>,
      <<"+", "4", "0", "7", "a", "1", "1", "1", "1", "1">> }

\* SMS_WEBHOOK_URL unset, or set with the webhook answering OK or not
Webhooks == {"unset", "ok", "notOk"}

\* z.string().min(7).max(32), then normalizePhoneNumber; null is refused too
ParsePhone(input) ==
    IF Len(input) < 7 \/ Len(input) > 32 THEN ErrorValue
    ELSE IF normalizePhoneNumber(StrValue(input)).kind = "null" THEN ErrorValue
    ELSE normalizePhoneNumber(StrValue(input))

\* ParsePhone, worked out once for each input
ParsedPhones == [input \in RequestInputs |-> ParsePhone(input)]

RequestPhone(input) == ParsedPhones[input]

\* as UsersFound, with the phoneAuthEnabled condition left out
UsersFoundEnabledOrNot(phone) ==
    {u \in UserRows : phone.kind = "str" /\ PhoneChars[u.phoneNumber] = phone.text}

\* user.findFirst where phoneNumber, phoneAuthEnabled: true
UsersFound(phone) ==
    {u \in UserRows :
        /\ phone.kind = "str"
        /\ PhoneChars[u.phoneNumber] = phone.text
        /\ u.phoneAuthEnabled}

RequestResponse(input, status, body, p, expiresAt, debugCode) ==
    [input |-> input, status |-> status, body |-> body, phone |-> p,
     expiresAt |-> expiresAt, debugCode |-> debugCode]

\* the schema or normalizePhoneNumber refuses what was posted
RequestCodeInvalid(input) ==
    /\ RequestPhone(input).kind = "error"
    /\ requestRes' = RequestResponse(input, 400, "invalid", "", 0, <<>>)
    /\ res' = NoRes
    /\ UNCHANGED <<now, otpTtlEnv, codes, nextId, issuedLog, streak, vst, smsOutbox>>
    /\ UNCHANGED backstage

\* if (!user) return { ok: true, message: 'Daca numarul exista in sistem...' }
RequestCodeUnknown(input) ==
    /\ RequestPhone(input).kind = "str"
    /\ UsersFound(RequestPhone(input)) = {}
    /\ requestRes' = RequestResponse(input, 200, "ifKnown", "", 0, <<>>)
    /\ res' = NoRes
    /\ UNCHANGED <<now, otpTtlEnv, codes, nextId, issuedLog, streak, vst, smsOutbox>>
    /\ UNCHANGED backstage

\* issuePhoneLoginCode throws the rate-limit error
RequestCodeRateLimited(input) ==
    /\ RequestPhone(input).kind = "str"
    /\ \E u \in UsersFound(RequestPhone(input)) :
          /\ IssueRateLimitedCall(u.phoneNumber)
          /\ requestRes' = RequestResponse(input, 429, "rate", u.phoneNumber, 0, <<>>)
    /\ UNCHANGED smsOutbox

\* issuePhoneLoginCode throws the cooldown error
RequestCodeCooldown(input) ==
    /\ RequestPhone(input).kind = "str"
    /\ \E u \in UsersFound(RequestPhone(input)) :
          /\ IssueCooldownCall(u.phoneNumber)
          /\ requestRes' = RequestResponse(input, 429, "cooldown", u.phoneNumber, 0, <<>>)
    /\ UNCHANGED smsOutbox

\* the code is issued and dispatched: by the webhook, or to the console
RequestCodeSent(input, n, webhook, allowDebugCode, maxIssued) ==
    /\ RequestPhone(input).kind = "str"
    /\ webhook \in {"unset", "ok"}
    /\ \E u \in UsersFound(RequestPhone(input)) :
          /\ IssueCreatedCall(u.phoneNumber, n, maxIssued)
          /\ smsOutbox' = Append(smsOutbox, [to |-> u.phoneNumber, code |-> res'.code])
          /\ requestRes' = RequestResponse(input, 200, "sent", u.phoneNumber, res'.expiresAt,
                                           IF allowDebugCode THEN res'.code ELSE <<>>)

\* the code is issued, the webhook does not answer OK: HttpError(502)
RequestCodeNotDispatched(input, n, webhook, maxIssued) ==
    /\ RequestPhone(input).kind = "str"
    /\ webhook = "notOk"
    /\ \E u \in UsersFound(RequestPhone(input)) :
          /\ IssueCreatedCall(u.phoneNumber, n, maxIssued)
          /\ requestRes' = RequestResponse(input, 502, "notDispatched", u.phoneNumber, 0, <<>>)
    /\ UNCHANGED smsOutbox

\* ------------------------------------------------------------------------
\* SpecRequest: requests to the route one after another, and the verifier
\* handed the code sent to the first user; the clock steps by the whole
\* cooldown and the time-to-live is the default 5 minutes.  requestRes holds
\* the last response until the clock moves.  With at most RequestMaxIssued + 1
\* rows the rate limit cannot be met, as in Spec.

RequestInvalid == \E input \in RequestInputs : RequestCodeInvalid(input)
RequestUnknown == \E input \in RequestInputs : RequestCodeUnknown(input)
RequestCooldown == \E input \in RequestInputs : RequestCodeCooldown(input)
RequestSent ==
    \E input \in RequestInputs, webhook \in Webhooks, allowDebugCode \in BOOLEAN :
        RequestCodeSent(input, 111111, webhook, allowDebugCode, RequestMaxIssued)
RequestNotDispatched ==
    \E input \in RequestInputs, webhook \in Webhooks :
        RequestCodeNotDispatched(input, 111111, webhook, RequestMaxIssued)
RequestVerifyNoActive == \E p \in VerifiedPhones : VerifyNoActive(p, MintCode(111111))
RequestVerifyMatch == \E p \in VerifiedPhones : VerifyMatch(p, MintCode(111111))
RequestTick ==
    /\ ClockMoves(CooldownMs, RequestMaxTicks)
    /\ requestRes' = NoRequestRes
    /\ UNCHANGED smsOutbox

RequestNext ==
    \/ RequestInvalid
    \/ RequestUnknown
    \/ RequestCooldown
    \/ RequestSent
    \/ RequestNotDispatched
    \/ RequestVerifyNoActive
    \/ RequestVerifyMatch
    \/ RequestTick

SpecRequest == InitWith(TtlUnset) /\ [][RequestNext]_vars

\* ------------------------------------------------------------------------
\* C26

\* the step is a request to the request-code route
C26_RequestStep == now' = now /\ res'.op # "verify" /\ requestRes'.status # 0

\* some user has the phone number, normalized from what was posted, with
\* phoneAuthEnabled true
C26_KnownUser(input) ==
    /\ Len(input) \in 7..32
    /\ normalizePhoneNumber(StrValue(input)).kind = "str"
    /\ \E u \in UserRows :
          /\ u.phoneAuthEnabled
          /\ PhoneChars[u.phoneNumber] = normalizePhoneNumber(StrValue(input)).text

\* C26: a request whose phone number normalizes and belongs to no user with
\* phoneAuthEnabled true is answered ok: true with no call of the issuer, the
\* table and the outbox left as they were; every row a request creates is of
\* a phone that such a user has.  (SpecRequest)
C26_CodesOnlyForKnownUsers ==
    [][ C26_RequestStep
        => /\ ( /\ Len(requestRes'.input) \in 7..32
                /\ normalizePhoneNumber(StrValue(requestRes'.input)).kind = "str"
                /\ ~C26_KnownUser(requestRes'.input) )
              => /\ requestRes'.status = 200 /\ requestRes'.body = "ifKnown"
                 /\ res' = NoRes
                 /\ codes' = codes
                 /\ smsOutbox' = smsOutbox
           /\ \A r \in CreatedRows :
                 /\ C26_KnownUser(requestRes'.input)
                 /\ \E u \in UserRows : u.phoneAuthEnabled /\ u.phoneNumber = r.phoneNumber ]_vars

\* the number of the user whose phoneAuthEnabled is false was posted while
\* the table held a row that the issuer's purge would have removed
C26_Witness ==
    /\ requestRes.status = 200 /\ requestRes.body = "ifKnown"
    /\ requestRes.input = PhoneChars["+40722222222"]
    /\ \E r \in codes : Purgeable(r, now)

\* ------------------------------------------------------------------------
\* C27

\* C27: a request answered 502 leaves the row the issuer created stored, the
\* newest active row of its phone, holding the hash of the issued code; and a
\* request for the phone of a 502 answer, made before the clock has moved, is
\* rejected with the cooldown error.  (SpecRequest)
C27_UndispatchedCodeStaysAndCoolsDown ==
    [][ C26_RequestStep
        => /\ (requestRes'.status = 502)
              => /\ Cardinality(CreatedRows) = 1
                 /\ \A r \in CreatedRows :
                       /\ r.phoneNumber = requestRes'.phone
                       /\ r.codeHash = hashOtpCode(r.phoneNumber, res'.code)
                       /\ ActiveCode(codes', requestRes'.phone, now') = {r}
                       /\ ~AttemptsExhausted(r.attempts)
           /\ (requestRes.status = 502 /\ requestRes'.phone = requestRes.phone)
              => (requestRes'.status = 429 /\ requestRes'.body = "cooldown") ]_vars

\* ------------------------------------------------------------------------
\* SpecTenant: requests to the profile routes (GET, PUT, DELETE, pdf,
\* access-log), each addressed to either workspace and either profile by any
\* of the users.
\* ------------------------------------------------------------------------
TenantGet ==
    \E u \in Users, w \in Workspaces, pid \in Profiles : GetProfile(u, w, pid, TenantMaxLogged)
TenantGetRefused ==
    \E u \in Users, w \in Workspaces, pid \in Profiles : GetProfileRefused(u, w, pid)
TenantPdf ==
    \E u \in Users, w \in Workspaces, pid \in Profiles : GetProfilePdf(u, w, pid, TenantMaxLogged)
TenantPdfRefused ==
    \E u \in Users, w \in Workspaces, pid \in Profiles : GetProfilePdfRefused(u, w, pid)
TenantLog ==
    \E u \in Users, w \in Workspaces, pid \in Profiles : GetAccessLog(u, w, pid)
TenantLogRefused ==
    \E u \in Users, w \in Workspaces, pid \in Profiles : GetAccessLogRefused(u, w, pid)
TenantPut ==
    \E u \in Users, w \in Workspaces, pid \in Profiles :
        PutProfile(u, w, pid, "valid", TenantMaxLogged)
TenantPutInvalid ==
    \E u \in Users, w \in Workspaces, pid \in Profiles, body \in PutBodies :
        PutProfileInvalid(u, w, pid, body)
TenantPutRefused ==
    \E u \in Users, w \in Workspaces, pid \in Profiles, body \in PutBodies :
        PutProfileRefused(u, w, pid, body)
TenantDelete ==
    \E u \in Users, w \in Workspaces, pid \in Profiles : DeleteProfile(u, w, pid)
TenantDeleteRefused ==
    \E u \in Users, w \in Workspaces, pid \in Profiles : DeleteProfileRefused(u, w, pid)

TenantNext ==
    \/ TenantGet
    \/ TenantGetRefused
    \/ TenantPdf
    \/ TenantPdfRefused
    \/ TenantLog
    \/ TenantLogRefused
    \/ TenantPut
    \/ TenantPutInvalid
    \/ TenantPutRefused
    \/ TenantDelete
    \/ TenantDeleteRefused

SpecTenant == InitWith(TtlUnset) /\ [][TenantNext]_vars

\* the roles the route of an answer allows
C28_RolesFor(op) == IF op \in {"view", "pdf"} THEN ViewRoles ELSE LogRoles

C28_ProfilesOutside(table, w) == {row \in table : row.workspaceId # w}

C28_LogsOutside(log, w) == SelectSeq(log, LAMBDA row : WorkspaceOf[row.profileId] # w)

C28_AuditOutside(log, w) == SelectSeq(log, LAMBDA row : WorkspaceOf[row.metadata.profileId] # w)

\* C28: a request to any of the five profile routes addressed to workspace W
\* and profile P leaves every profile, access-log row and audit row of the
\* other workspaces as it was and returns access-log rows of W's profiles
\* only; when P's workspaceId is not W the request is not answered 200, is
\* answered 404 whenever its caller holds a role the route allows in W, and
\* changes no profile, no access-log row and no audit row.
C28_TenantIsolation ==
    [][ LET w == profileRes'.workspace
            pid == profileRes'.profile
        IN  /\ C28_ProfilesOutside(profileTable', w) = C28_ProfilesOutside(profileTable, w)
            /\ C28_LogsOutside(profileAccessLog', w) = C28_LogsOutside(profileAccessLog, w)
            /\ C28_AuditOutside(auditLog', w) = C28_AuditOutside(auditLog, w)
            /\ \A k \in 1..Len(profileRes'.logs) :
                   WorkspaceOf[profileRes'.logs[k].profileId] = w
            /\ WorkspaceOf[pid] # w
               => /\ profileRes'.status # 200
                  /\ HasWorkspaceAccess(profileRes'.actor, w, C28_RolesFor(profileRes'.op))
                     => profileRes'.status = 404
                  /\ <<profileTable, profileAccessLog, auditLog>>'
                       = <<profileTable, profileAccessLog, auditLog>> ]_vars

\* a PUT by the owner of one workspace, addressed to that workspace and to a
\* profile of the other that exists and has been viewed, was answered 404
C28_Witness ==
    /\ profileRes.op = "put"
    /\ profileRes.status = 404
    /\ WorkspaceOf[profileRes.profile] # profileRes.workspace
    /\ HasWorkspaceAccess(profileRes.actor, profileRes.workspace, LogRoles)
    /\ \E row \in profileTable : row.id = profileRes.profile
    /\ \E k \in 1..Len(profileAccessLog) : profileAccessLog[k].profileId = profileRes.profile

\* ------------------------------------------------------------------------
\* PUT .../psychosocial-profiles/[profileId] as the steps of one request: the
\* handler awaits the lookup, the update and the access-log insert one after
\* the other, and other requests run between them.
\* ------------------------------------------------------------------------
PutStatusAtFind(u, w, pid, body) ==
    IF RefusedStatus(u, w, pid, LogRoles) # 200 THEN RefusedStatus(u, w, pid, LogRoles)
    ELSE IF body # "valid" THEN 400
    ELSE 200

\* requireApiUserOrThrow, assertWorkspaceAccess, findFirst, updateSchema.parse
\* and the assessmentDate test
PutFind(c, u, w, pid, body) ==
    /\ pst[c].pc = "idle"
    /\ pst' = [pst EXCEPT ![c] =
                 [pc |-> IF PutStatusAtFind(u, w, pid, body) = 200 THEN "update" ELSE "done",
                  actor |-> u, profile |-> pid, body |-> body,
                  status |-> IF PutStatusAtFind(u, w, pid, body) = 200
                             THEN 0 ELSE PutStatusAtFind(u, w, pid, body)]]
    /\ UNCHANGED <<profileAccessLog, auditLog, profileRes, profileTable, aiRes>>
    /\ UNCHANGED otpVars /\ UNCHANGED phoneCall /\ UNCHANGED frontVars

\* psychosocialProfile.update where id
PutUpdate(c) ==
    /\ pst[c].pc = "update"
    /\ \E row \in profileTable : row.id = pst[c].profile
    /\ profileTable' = UpdateProfile(profileTable, pst[c].profile)
    /\ pst' = [pst EXCEPT ![c].pc = "log"]
    /\ UNCHANGED <<profileAccessLog, auditLog, profileRes, aiRes>>
    /\ UNCHANGED otpVars /\ UNCHANGED phoneCall /\ UNCHANGED frontVars

\* the row was deleted after the lookup: update throws, jsonError answers
PutUpdateMissing(c) ==
    /\ pst[c].pc = "update"
    /\ ~\E row \in profileTable : row.id = pst[c].profile
    /\ pst' = [pst EXCEPT ![c].pc = "done", ![c].status = 500]
    /\ UNCHANGED <<profileAccessLog, auditLog, profileRes, profileTable, aiRes>>
    /\ UNCHANGED otpVars /\ UNCHANGED phoneCall /\ UNCHANGED frontVars

\* profileAccessLog.create PROFILE_UPDATED, then the 200 response
PutLog(c, maxLogged) ==
    /\ pst[c].pc = "log"
    /\ \E row \in profileTable : row.id = pst[c].profile
    /\ Len(profileAccessLog) < maxLogged
    /\ profileAccessLog' =
           Append(profileAccessLog, AccessLogRow(pst[c].profile, pst[c].actor, "PROFILE_UPDATED"))
    /\ pst' = [pst EXCEPT ![c].pc = "done", ![c].status = 200]
    /\ UNCHANGED <<auditLog, profileRes, profileTable, aiRes>>
    /\ UNCHANGED otpVars /\ UNCHANGED phoneCall /\ UNCHANGED frontVars

\* the row was deleted after the update: the insert breaks the foreign key
PutLogMissing(c) ==
    /\ pst[c].pc = "log"
    /\ ~\E row \in profileTable : row.id = pst[c].profile
    /\ pst' = [pst EXCEPT ![c].pc = "done", ![c].status = 500]
    /\ UNCHANGED <<profileAccessLog, auditLog, profileRes, profileTable, aiRes>>
    /\ UNCHANGED otpVars /\ UNCHANGED phoneCall /\ UNCHANGED frontVars

\* the response is read; the connection serves its next request
PutReturn(c) ==
    /\ pst[c].pc = "done"
    /\ pst' = [pst EXCEPT ![c] = IdlePut]
    /\ UNCHANGED <<profileAccessLog, auditLog, profileRes, profileTable, aiRes>>
    /\ UNCHANGED otpVars /\ UNCHANGED phoneCall /\ UNCHANGED frontVars

\* ------------------------------------------------------------------------
\* SpecPut: two connections that PUT, in steps that interleave, and DELETE
\* requests between the steps.
\* ------------------------------------------------------------------------
PutterFind ==
    \E c \in Putters, u \in Users, w \in Workspaces, pid \in Profiles, body \in PutBodies :
        PutFind(c, u, w, pid, body)
PutterUpdate == \E c \in Putters : PutUpdate(c)
PutterUpdateMissing == \E c \in Putters : PutUpdateMissing(c)
PutterLog == \E c \in Putters : PutLog(c, PutMaxLogged)
PutterLogMissing == \E c \in Putters : PutLogMissing(c)
PutterReturn == \E c \in Putters : PutReturn(c)
PutterDelete == \E u \in Users, pid \in Profiles : DeleteProfile(u, WorkspaceOf[pid], pid)

PutNext ==
    \/ PutterFind
    \/ PutterUpdate
    \/ PutterUpdateMissing
    \/ PutterLog
    \/ PutterLogMissing
    \/ PutterReturn
    \/ PutterDelete

SpecPut == InitWith(TtlUnset) /\ [][PutNext]_vars

\* the PUTs of a profile that were answered 200, one PROFILE_UPDATED row each
C29_Succeeded(log, pid) ==
    Len(SelectSeq(log, LAMBDA row : row.profileId = pid /\ row.action = "PROFILE_UPDATED"))

\* the PUTs of a profile that have updated it and not yet answered
C29_Updating(st, pid) == Cardinality({c \in Putters : st[c].pc = "log" /\ st[c].profile = pid})

C29_VersionOf(table, pid) == (CHOOSE row \in table : row.id = pid).version

\* C29: the version of a profile is its initial version plus the number of
\* its PUTs answered 200 (plus those that have updated and not yet answered),
\* whether the PUTs ran one after the other or interleaved; the update of a
\* PUT raises the version by exactly 1, a step that ends a PUT in a failure
\* (403, 404, 400, 500) leaves every version as it was, and the version of a
\* profile never decreases.
C29_VersionCountsPuts ==
    [][ /\ \A row \in profileTable' :
               row.version = ProfileRow(row.id).version
                               + C29_Succeeded(profileAccessLog', row.id)
                               + C29_Updating(pst', row.id)
        /\ \A c \in Putters :
               /\ (pst[c].pc = "update" /\ pst'[c].pc = "log")
                  => C29_VersionOf(profileTable', pst[c].profile)
                       = C29_VersionOf(profileTable, pst[c].profile) + 1
               /\ (pst[c].pc # "done" /\ pst'[c].pc = "done" /\ pst'[c].status # 200)
                  => profileTable' = profileTable
        /\ \A row \in profileTable, after \in profileTable' :
               after.id = row.id => after.version >= row.version ]_vars

\* both connections hold a 200 answer to a PUT of one profile, and that
\* profile has had PutMaxLogged successful PUTs
C29_Witness ==
    /\ \A c \in Putters : pst[c].pc = "done" /\ pst[c].status = 200 /\ pst[c].profile = "pr1"
    /\ C29_Succeeded(profileAccessLog, "pr1") = PutMaxLogged
    /\ C29_VersionOf(profileTable, "pr1") = ProfileRow("pr1").version + PutMaxLogged

\* ------------------------------------------------------------------------
\* The two AI routes: POST .../medications/alerts-ai and POST
\* .../medications/forecast. The request carries a provider and a horizon;
\* generateText either throws or returns a model name and a text.
\* ------------------------------------------------------------------------
AiRoutes == {"alerts-ai", "forecast"}
Providers == {"openai", "claude", "gemini"}

MinHorizonDays == 7
MaxHorizonDays == 120
DefaultHorizonDays == 30

\* horizonDays of the request body; 0 stands for a body without the field
HorizonInputs ==
    {0, MinHorizonDays - 1, MinHorizonDays, DefaultHorizonDays, MaxHorizonDays, MaxHorizonDays + 1}

\* requestSchema.parse: the default, then int().min(7).max(120)
ParsedHorizon(h) == IF h = 0 THEN DefaultHorizonDays ELSE h
HorizonAccepted(h) ==
    ParsedHorizon(h) >= MinHorizonDays /\ ParsedHorizon(h) <= MaxHorizonDays

ModelNames == {"modelA", "modelB"}

\* what the text is to extractJsonObject and to the route's schema
GeneratedTexts == {"noJson", "refusedBySchema", "valid"}

\* the outcomes of generateText
Generations ==
    {[kind |-> "throws", model |-> "", text |-> ""]}
      \cup {[kind |-> "text", model |-> m, text |-> t] : m \in ModelNames, t \in GeneratedTexts}

AiAnswer(body, model, fallbackRulesUsed) ==
    [body |-> body, model |-> model, fallbackRulesUsed |-> fallbackRulesUsed]

\* the try block of alerts-ai: model is assigned, then the text is parsed and
\* validated, then fallbackRulesUsed is cleared
AlertsDigest(gen) ==
    IF gen.kind = "throws" THEN AiAnswer("fallback", "null", TRUE)
    ELSE IF gen.text # "valid" THEN AiAnswer("fallback", gen.model, TRUE)
    ELSE AiAnswer("ai", gen.model, FALSE)

\* the try block of forecast: the text is parsed and validated, then model is
\* assigned and fallbackRulesUsed is cleared
RestockForecast(gen) ==
    IF gen.kind = "throws" THEN AiAnswer("fallback", "null", TRUE)
    ELSE IF gen.text # "valid" THEN AiAnswer("fallback", "null", TRUE)
    ELSE AiAnswer("ai", gen.model, FALSE)

AiResponse(route, status, provider, horizonDays, gen, answer) ==
    [route |-> route, status |-> status, provider |-> provider, horizonDays |-> horizonDays,
     generated |-> gen, body |-> answer.body, model |-> answer.model,
     fallbackRulesUsed |-> answer.fallbackRulesUsed]

PostAlertsAi(provider, h, gen) ==
    /\ HorizonAccepted(h)
    /\ aiRes' = AiResponse("alerts-ai", 200, provider, ParsedHorizon(h), gen, AlertsDigest(gen))
    /\ UNCHANGED otpVars /\ UNCHANGED phoneCall /\ UNCHANGED frontVars
    /\ UNCHANGED profileVars /\ UNCHANGED ist

\* requestSchema.parse throws; jsonError answers
PostAlertsAiInvalid(provider, h) ==
    /\ ~HorizonAccepted(h)
    /\ aiRes' = AiResponse("alerts-ai", 400, provider, h, NotGenerated,
                           AiAnswer("error", "null", FALSE))
    /\ UNCHANGED otpVars /\ UNCHANGED phoneCall /\ UNCHANGED frontVars
    /\ UNCHANGED profileVars /\ UNCHANGED ist

PostForecast(provider, h, gen) ==
    /\ HorizonAccepted(h)
    /\ aiRes' = AiResponse("forecast", 200, provider, ParsedHorizon(h), gen, RestockForecast(gen))
    /\ UNCHANGED otpVars /\ UNCHANGED phoneCall /\ UNCHANGED frontVars
    /\ UNCHANGED profileVars /\ UNCHANGED ist

PostForecastInvalid(provider, h) ==
    /\ ~HorizonAccepted(h)
    /\ aiRes' = AiResponse("forecast", 400, provider, h, NotGenerated,
                           AiAnswer("error", "null", FALSE))
    /\ UNCHANGED otpVars /\ UNCHANGED phoneCall /\ UNCHANGED frontVars
    /\ UNCHANGED profileVars /\ UNCHANGED ist

\* ------------------------------------------------------------------------
\* SpecAi: requests to the two AI routes with every provider, horizon and
\* outcome of the generation.
\* ------------------------------------------------------------------------
AiAlerts ==
    \E provider \in Providers, h \in HorizonInputs, gen \in Generations :
        PostAlertsAi(provider, h, gen)
AiAlertsInvalid ==
    \E provider \in Providers, h \in HorizonInputs : PostAlertsAiInvalid(provider, h)
AiForecast ==
    \E provider \in Providers, h \in HorizonInputs, gen \in Generations :
        PostForecast(provider, h, gen)
AiForecastInvalid ==
    \E provider \in Providers, h \in HorizonInputs : PostForecastInvalid(provider, h)

AiNext ==
    \/ AiAlerts
    \/ AiAlertsInvalid
    \/ AiForecast
    \/ AiForecastInvalid

SpecAi == InitWith(TtlUnset) /\ [][AiNext]_vars

\* the generation threw, or its text has no JSON or is refused by the schema
C30_GenerationFailed(gen) == gen.kind = "throws" \/ (gen.kind = "text" /\ gen.text # "valid")

\* C30: in both AI routes a request that reached the generation is answered
\* 200; when the generation or the validation of its text failed the answer
\* is the rule-based fallback with fallbackRulesUsed = true and model = null;
\* and fallbackRulesUsed = false with a model that is not null is reported
\* exactly when the body is the validated AI output.
C30_FallbackNeverAnError ==
    (aiRes.route \in AiRoutes /\ aiRes.generated.kind # "none")
    => /\ aiRes.status = 200
       /\ C30_GenerationFailed(aiRes.generated)
          => (aiRes.body = "fallback" /\ aiRes.fallbackRulesUsed /\ aiRes.model = "null")
       /\ (~aiRes.fallbackRulesUsed /\ aiRes.model # "null") <=> aiRes.body = "ai"

====
